---- MODULE Spec2Model ----
(***************************************************************************)
(* A model of the omega screen recorder: the metadata catalog (db.rs), the *)
(* capture -> bridge -> chunking encoder pipeline (main.rs, capture.rs,    *)
(* encoder.rs, encoder_subprocess.rs), the shutdown handlers (main.rs) and *)
(* the monitor switch policy (capture.rs).                                 *)
(*                                                                         *)
(* The module holds several specifications over one set of variables; each *)
(* specification drives one subsystem and leaves the others at rest.       *)
(***************************************************************************)
EXTENDS Integers, Sequences, FiniteSets, TLC

VARIABLES
    \* ---- catalog (db.rs) ----
    video_chunks,   \* table video_chunks: sequence of rows, row i has id i (AUTOINCREMENT)
    frames,         \* table frames: sequence of rows in insertion order
    rec_device,     \* device_name (hostname) each recorder process runs on
    cat_pc,         \* position of each recorder's connection inside insert_frame
    tx_chunk_id,    \* insert_frame: video_chunk_id fetched by the first SELECT
    tx_offset,      \* insert_frame: offset_index fetched by the second SELECT
    tx_stale,       \* insert_frame: another connection committed since the transaction's first read
    open_chunk,     \* id of the chunk row a recorder inserted for the file it is encoding (0: none)
    db_failures,    \* number of catalog calls of the recording run that returned an error
    \* ---- record command: arguments (main.rs, cli.rs) ----
    fps,                  \* --fps
    chunk_duration_secs,  \* --chunk-duration
    duration,             \* --duration, 0: until interrupted
    session_id,           \* Some(id) for a task recording (1), None (0) otherwise
    encoder_backend,      \* [kind, delay]: the encoder implementation of the build and the
                          \* number of submitted frames the codec holds back before its first packet
    \* ---- frame producer (capture.rs) ----
    p_pc,           \* "check" (loop top), "capture", "done"
    frame_count,    \* frames sent so far
    running,        \* the stop flag (AtomicBool, true while recording)
    \* ---- channels and bridge (main.rs) ----
    std_chan,       \* std::sync::mpsc channel producer -> bridge: frames in flight
    frame_ch,       \* tokio mpsc channel bridge -> encoder: frames in flight
    b_pc,           \* "recv", "send", "done"
    b_frame,        \* the frame the bridge holds between recv and send (0: none)
    \* ---- chunking encoder (encoder.rs) ----
    e_pc,                     \* "init", "loop", "done"
    chunk_index,
    frames_in_current_chunk,
    current_encoder,          \* the open VideoEncoder / SubprocessEncoder
    chunk_outputs,            \* one entry per finalized chunk file
    submitted,                \* history: the frames passed to encode_frame, in order
    \* ---- shutdown (main.rs) ----
    shutdown_tx,        \* TRUE while the Option in the mutex holds the oneshot sender
    shutdown_sent,      \* TRUE once tx.send(()) was called
    ctrlc_pc,           \* the Ctrl+C handler: "idle", "signal", "stop", "done"
    sigterm_pc,         \* the SIGTERM task: "wait", "end_session", "signal", "stop", "done"
    end_thread,         \* the thread the Ctrl+C handler spawns: "none", "running", "done"
    main_pc,            \* main after spawning: "join", "end_session", "done"
    session_ended_at,   \* sessions.ended_at: "null" or the writer whose timestamp it holds
    \* -- multi-monitor capture: the monitor switch policy --
    switch_detector,    \* MonitorSwitchDetector: check_interval, last_check,
                        \* current_display, pending_display, pending_count
    sw_now,             \* Instant::now(), in ticks
    checks,             \* history: what each check that passed the interval gate saw
    sw_return,          \* the last call of check_for_switch: the value it returned
                        \* ("none" or the new display) and current_display before it
    \* -- recording sessions of the catalog --
    sessions,           \* rows of recording_sessions: task_id, started_at, ended_at
                        \* (0 stands for NULL); the row's index is its id
    wall_clock,         \* the last instant chrono::Utc::now() returned
    pending_ends,       \* end times taken by a handler or by main, not yet written
    \* -- VideoEncoder::new_with_pts_offset: selection of the backend --
    available_encoders, \* get_available_encoders(): names, in priority order
    init_pc,            \* "start", "attempt", "done"
    init_idx,           \* position in available_encoders of the backend being tried
    init_attempt,       \* attempt of try_init_encoder_with_retries' loop
    init_log,           \* history: encoder, attempt, delay slept before it, outcome
    init_result,        \* status "none" / "ok" / "EncodingError", the error's text,
                        \* and the backend selected
    \* -- VideoEncoder at run time: failures and the fallback --
    encoder_info,       \* the backend of current_encoder ("none" before the first chunk)
    encoder_faults,     \* encode_frame calls in which the codec or the muxer failed
    e_result,           \* the error process_frames_chunked returned, "none" if it has not
    recoveries,         \* history: one record per encode_frame call that met a failure
    \* -- the record command up to the start of the pipeline --
    record_args,        \* fps, recording_type, task_id, and what the machine offers
    record_pc,          \* where main is in the Record branch
    record_result,      \* "none" until main returns or the pipeline runs; then the error
    created,            \* what the command has created so far
    \* -- the concat command --
    concat_chunks,      \* get_chunks_by_task_id: the task's chunk rows with their files
    concat_frames,      \* get_frames_by_task_id: the task's frame rows
    concat_pc,          \* "attempt" / "wait" / "done" ("idle" when the command is not run)
    concat_attempt,     \* the loop variable `attempt` of concatenate_chunks
    concat_sleeps,      \* history: the seconds slept before the retries
    concat_runs,        \* history: what each call of concatenate_chunks_impl did
    concat_result,      \* "none", "ok" or the error concatenate_chunks returned
    prior_outputs,      \* final.mp4, metadata.json, frames.json as the command found them
    concat_outputs,     \* the three files now
    concat_last,        \* how far the last call of concatenate_chunks_impl got
    \* -- the catalog under deletion of chunks --
    foreign_keys,       \* whether the connection enforces FOREIGN KEY constraints
    chunk_table,        \* the rows of video_chunks: a set, rows can go
    frame_table,        \* the rows of frames
    next_rowid,         \* the AUTOINCREMENT counters of the two tables
    \* -- chunk files of sequential runs into one output directory --
    local_time,         \* chrono::Local::now(), in ticks of 1/TicksPerSecond second
    created_at,         \* video_chunks.created_at, by chunk id, in whole seconds
    opened_files,       \* history: the path and the run of every chunk file opened
    run_no,             \* which run of the record command this is (1, 2, ...)
    \* -- the life of the chunks of one recording process --
    chunk_log,          \* history: per chunk opened, its state, the frames submitted
                        \* to it, and how it left the running state
    append_log,         \* history: per call of insert_frame by the encoder, the
                        \* frame, whether it failed and what it did to the catalog
    \* -- the frame producer's last turns --
    capture_log,        \* history: calls of capturer.frame() and frames sent since the
                        \* stop flag was flipped, sends that failed, and what
                        \* start_capture returned ("none" while it runs)
    \* -- Database::new on a catalog file --
    db_file,            \* the schema of the file: tables, the columns of frames, indexes
    db_rows,            \* the rows of frames in the file, each its column values
    opener_pc,          \* per process: the statement of create_schema it is at
    column_names,       \* per process: what PRAGMA table_info(frames) returned
    open_result,        \* per process: what its last Database::new returned
    opens,              \* per process: how often it has called Database::new
    \* -- the rate parameter of the software encoder --
    target_os,          \* the platform the program was built for
    crf_backend,        \* whose quality_to_crf is called: "library" or "subprocess"
    quality,            \* the quality argument, a u8
    crf,                \* what quality_to_crf returned (-1: not called yet)
    \* -- signals, as often as they come --
    shutdown_sends,     \* history: how often tx.send(()) ran on the shutdown channel
    ctrlc_count         \* how many Ctrl+C the handler thread has taken up

catalog_vars == <<video_chunks, frames, rec_device, cat_pc, tx_chunk_id, tx_offset,
                  tx_stale, open_chunk>>

config_vars == <<fps, chunk_duration_secs, duration, session_id, encoder_backend>>

producer_vars == <<p_pc, frame_count>>

bridge_vars == <<std_chan, frame_ch, b_pc, b_frame>>

encoder_vars == <<e_pc, chunk_index, frames_in_current_chunk, current_encoder,
                  chunk_outputs, submitted>>

shutdown_vars == <<running, shutdown_tx, shutdown_sent, ctrlc_pc, sigterm_pc, end_thread,
                   main_pc, session_ended_at>>

recording_vars == <<db_failures, config_vars, producer_vars, bridge_vars, encoder_vars,
                    shutdown_vars>>

switch_vars == <<switch_detector, sw_now, checks, sw_return>>

session_vars == <<sessions, wall_clock, pending_ends>>

\* the parts of the program the recording specifications leave alone
init_vars == <<available_encoders, init_pc, init_idx, init_attempt, init_log, init_result>>

fault_vars == <<encoder_info, encoder_faults, e_result, recoveries>>

record_vars == <<record_args, record_pc, record_result, created>>

concat_vars == <<concat_chunks, concat_frames, concat_pc, concat_attempt, concat_sleeps,
                 concat_runs,
                 concat_result, prior_outputs, concat_outputs, concat_last>>

admin_vars == <<foreign_keys, chunk_table, frame_table, next_rowid>>

run_vars == <<local_time, opened_files, run_no, created_at>>

trace_vars == <<chunk_log, append_log>>

stop_vars == <<capture_log>>

open_vars == <<db_file, db_rows, opener_pc, column_names, open_result, opens>>

quality_vars == <<target_os, crf_backend, quality, crf>>

signal_vars == <<shutdown_sends, ctrlc_count>>

tail_vars == <<open_vars, quality_vars, signal_vars>>

aux_vars == <<admin_vars, run_vars, trace_vars, stop_vars, tail_vars>>

command_vars == <<record_vars, concat_vars, aux_vars>>

later_vars == <<session_vars, init_vars, fault_vars, command_vars>>

vars == <<catalog_vars, recording_vars, switch_vars, later_vars>>

----------------------------------------------------------------------------
(* Bounds of the model *)

\* total number of chunk rows the recorders insert
MaxChunkRows == 3
\* ticks of the local clock in one second
TicksPerSecond == 2
\* the local time the runs may reach, in ticks
MaxLocalTime == 5
\* runs of the record command with the same task id
MaxRuns == 2
\* total number of frame rows the recorders append
MaxFrameRows == 3
\* frames the producer captures in one run (caps frame_count, unbounded when
\* --duration is 0)
MaxFrames == 4
\* capacity of the bridge's channel, scaled down from mpsc::channel(300)
ChannelCapacity == 2
\* largest number of frames the codec holds back before its first packet
MaxEncoderDelay == 1
\* catalog calls that fail during one recording run
MaxDbFailures == 1
\* ticks of the clock the monitor switch policy reads
MaxClock == 4
\* calls of check_for_switch that pass the interval gate
MaxChecks == 4
\* rows of recording_sessions
MaxSessions == 3
\* encode_frame calls of one run in which the codec or the muxer fails
MaxEncoderFaults == 1
\* chunk rows, and frame rows, of the task given to concat
MaxConcatRows == 2
\* rows ever inserted into each table of the catalog under deletion
MaxRowIds == 3
\* the last second of the wall clock
MaxWallClock == 5

----------------------------------------------------------------------------
(* Catalog: db.rs *)

Recorders == {"r1", "r2"}
Devices == {"hostA", "hostB"}

\* two recorder processes are started with distinct task ids
TaskOf(r) == IF r = "r1" THEN "task_1" ELSE "task_2"

Max(S) == CHOOSE x \in S : \A y \in S : y <= x

\* SELECT id FROM video_chunks WHERE device_name = ?1 ORDER BY id DESC LIMIT 1
\* on the table `chunks` (0 stands for "no row": fetch_one fails with RowNotFound)
LatestChunkIdIn(chunks, device) ==
    LET ids == {i \in 1..Len(chunks) : chunks[i].device_name = device}
    IN  IF ids = {} THEN 0 ELSE Max(ids)

LatestChunkId(device) == LatestChunkIdIn(video_chunks, device)

\* the offset_index values of the rows of a chunk in the table `rows`
OffsetsIn(rows, chunk_id) ==
    {rows[i].offset_index : i \in {j \in 1..Len(rows) : rows[j].video_chunk_id = chunk_id}}

OffsetsOf(chunk_id) == OffsetsIn(frames, chunk_id)

\* SELECT COALESCE(MAX(offset_index), -1) + 1 FROM frames WHERE video_chunk_id = ?1
NextOffsetIndexIn(rows, chunk_id) ==
    IF OffsetsIn(rows, chunk_id) = {} THEN 0 ELSE Max(OffsetsIn(rows, chunk_id)) + 1

NextOffsetIndex(chunk_id) == NextOffsetIndexIn(frames, chunk_id)

\* the row INSERT INTO video_chunks writes; its id is the next rowid
ChunkRow(chunks, device, task, index) ==
    [id |-> Len(chunks) + 1, device_name |-> device, task_id |-> task, chunk_index |-> index]

\* the row INSERT INTO frames writes; enc_chunk is a history field: the chunk
\* row of the file the recorder encoded the frame into (0: that file has no row)
FrameRow(chunk_id, offset, keyframe, enc) ==
    [video_chunk_id |-> chunk_id, offset_index |-> offset, is_keyframe |-> keyframe,
     enc_chunk |-> enc]

ChunksOf(r) == {i \in 1..Len(video_chunks) : video_chunks[i].task_id = TaskOf(r)}

InTransaction(r) == cat_pc[r] \in {"tx_offset", "tx_insert"}

\* a commit by connection r invalidates the read snapshot of every other open transaction
StaleAfterCommit(r) ==
    [q \in Recorders |-> IF q # r /\ InTransaction(q) THEN TRUE ELSE tx_stale[q]]

\* Database::insert_video_chunk, called by a recorder when it opens a chunk file:
\* the first chunk before any frame, later chunks at a rollover
InsertVideoChunk(r) ==
    /\ cat_pc[r] \in {"start", "idle"}
    /\ Len(video_chunks) < MaxChunkRows
    /\ video_chunks' = Append(video_chunks,
                              ChunkRow(video_chunks, rec_device[r], TaskOf(r),
                                       Cardinality(ChunksOf(r))))
    /\ open_chunk' = [open_chunk EXCEPT ![r] = Len(video_chunks) + 1]
    /\ cat_pc' = [cat_pc EXCEPT ![r] = "idle"]
    /\ tx_stale' = StaleAfterCommit(r)
    /\ UNCHANGED <<frames, rec_device, tx_chunk_id, tx_offset>>

\* Database::insert_video_chunk returns an error: the recorder logs it and goes
\* on encoding into a file that has no chunk row
InsertVideoChunkFails(r) ==
    /\ cat_pc[r] \in {"start", "idle"}
    /\ Len(video_chunks) < MaxChunkRows
    /\ open_chunk' = [open_chunk EXCEPT ![r] = 0]
    /\ cat_pc' = [cat_pc EXCEPT ![r] = "idle"]
    /\ UNCHANGED <<video_chunks, frames, rec_device, tx_chunk_id, tx_offset, tx_stale>>

\* Database::insert_frame, pool.begin() and step 1: the latest chunk of the device
InsertFrameBegin(r) ==
    /\ cat_pc[r] = "idle"
    /\ Len(frames) < MaxFrameRows
    /\ IF LatestChunkId(rec_device[r]) = 0
       THEN \* fetch_one fails, the transaction is dropped and rolled back
            UNCHANGED <<cat_pc, tx_chunk_id, tx_stale>>
       ELSE /\ cat_pc' = [cat_pc EXCEPT ![r] = "tx_offset"]
            /\ tx_chunk_id' = [tx_chunk_id EXCEPT ![r] = LatestChunkId(rec_device[r])]
            /\ tx_stale' = [tx_stale EXCEPT ![r] = FALSE]
    /\ UNCHANGED <<video_chunks, frames, rec_device, tx_offset, open_chunk>>

\* Database::insert_frame, step 2: the next offset_index of that chunk
InsertFrameOffset(r) ==
    /\ cat_pc[r] = "tx_offset"
    /\ tx_offset' = [tx_offset EXCEPT ![r] = NextOffsetIndex(tx_chunk_id[r])]
    /\ cat_pc' = [cat_pc EXCEPT ![r] = "tx_insert"]
    /\ UNCHANGED <<video_chunks, frames, rec_device, tx_chunk_id, tx_stale, open_chunk>>

\* a plausible slip: the three statements run outside a transaction, so the
\* INSERT goes through whatever was committed since the two SELECTs
TxNotIsolated(r) == TRUE

\* The write of a deferred SQLite transaction succeeds only on an up-to-date
\* read snapshot (otherwise SQLITE_BUSY / SQLITE_BUSY_SNAPSHOT)
TxMayCommit(r) == ~tx_stale[r]

\* it may also time out on the lock while another connection is in a transaction
TxMayFail(r) == tx_stale[r] \/ \E q \in Recorders \ {r} : InTransaction(q)

\* Database::insert_frame, step 3 and tx.commit(): the row is written
InsertFrameCommit(r) ==
    /\ cat_pc[r] = "tx_insert"
    /\ TxMayCommit(r)
    /\ frames' = Append(frames,
                        FrameRow(tx_chunk_id[r], tx_offset[r], FALSE, open_chunk[r]))
    /\ cat_pc' = [cat_pc EXCEPT ![r] = "idle"]
    /\ tx_stale' = [StaleAfterCommit(r) EXCEPT ![r] = FALSE]
    /\ tx_chunk_id' = [tx_chunk_id EXCEPT ![r] = 0]
    /\ tx_offset' = [tx_offset EXCEPT ![r] = 0]
    /\ UNCHANGED <<video_chunks, rec_device, open_chunk>>

\* Database::insert_frame, step 3 or tx.commit() returns an error: `?` drops
\* the transaction, which rolls back
InsertFrameBusy(r) ==
    /\ cat_pc[r] = "tx_insert"
    /\ TxMayFail(r)
    /\ cat_pc' = [cat_pc EXCEPT ![r] = "idle"]
    /\ tx_stale' = [tx_stale EXCEPT ![r] = FALSE]
    /\ tx_chunk_id' = [tx_chunk_id EXCEPT ![r] = 0]
    /\ tx_offset' = [tx_offset EXCEPT ![r] = 0]
    /\ UNCHANGED <<video_chunks, frames, rec_device, open_chunk>>

----------------------------------------------------------------------------
(* The record command: main.rs, capture.rs, encoder.rs, encoder_subprocess.rs *)

\* values of --fps, --chunk-duration and --duration the model runs with
FpsValues == {1, 2}
ChunkDurations == {0, 1}
Durations == {0, 2}
\* --duration of the sequential runs
RunDurations == {0, 1}

\* the recording process of the pipeline specifications
Me == "r1"

\* let target_frames = if duration > 0 { Some(duration * fps) } else { None }  (0: None)
target_frames == IF duration > 0 THEN duration * fps ELSE 0

\* let frames_per_chunk = (fps as u64) * chunk_duration_secs
frames_per_chunk == fps * chunk_duration_secs

\* opts.set("g", fps * 2) / let gop_size = fps * 2
gop_size == fps * 2

\* ---- frame producer: ScreenCapture::start_capture_single_monitor ----

\* a loop that never looks at its target
TargetIgnored(count) == FALSE

\* if let Some(target) = target_frames { if frame_count >= target { break } }
TargetReached(count) == target_frames # 0 /\ count >= target_frames

\* loop top: the stop flag, then the target frame count
ProducerCheck ==
    /\ p_pc = "check"
    /\ IF ~running
       THEN p_pc' = "done"
       ELSE IF TargetReached(frame_count)
       THEN p_pc' = "done"
       ELSE /\ frame_count < MaxFrames
            /\ p_pc' = "capture"
    /\ UNCHANGED <<frame_count, bridge_vars, encoder_vars, shutdown_vars, config_vars,
                   catalog_vars, db_failures>>

\* std::sync::mpsc::Sender::send on the channel made by std_mpsc::channel():
\* it queues the frame whatever the queue's length, and fails only when the
\* receiver is gone
StdSend(ch, frame) == Append(ch, frame)

\* capturer.frame() returned a frame: convert it and tx.send(captured_frame)
ProducerSend ==
    /\ p_pc = "capture"
    /\ IF b_pc = "done"
       THEN \* "Frame receiver dropped, stopping capture"
            /\ p_pc' = "done"
            /\ UNCHANGED <<frame_count, std_chan>>
       ELSE /\ std_chan' = StdSend(std_chan, frame_count + 1)
            /\ frame_count' = frame_count + 1
            /\ p_pc' = "check"
    /\ UNCHANGED <<frame_ch, b_pc, b_frame, encoder_vars, shutdown_vars, config_vars,
                   catalog_vars, db_failures>>

\* ---- bridge task ----

\* a plausible slip: the newest frame is taken first
StdRecvNewest(ch) == [frame |-> ch[Len(ch)], rest |-> SubSeq(ch, 1, Len(ch) - 1)]

\* frame_rx_std.recv(): the oldest queued frame
StdRecv(ch) == [frame |-> Head(ch), rest |-> Tail(ch)]

\* while let Ok(frame) = frame_rx_std.recv()
BridgeRecv ==
    /\ b_pc = "recv"
    /\ std_chan # <<>>
    /\ b_frame' = StdRecv(std_chan).frame
    /\ std_chan' = StdRecv(std_chan).rest
    /\ b_pc' = "send"
    /\ UNCHANGED <<frame_ch, producer_vars, encoder_vars, shutdown_vars, config_vars,
                   catalog_vars, db_failures>>

\* recv() fails: the queue is empty and the capture thread dropped its sender
BridgeRecvClosed ==
    /\ b_pc = "recv"
    /\ std_chan = <<>>
    /\ p_pc = "done"
    /\ b_pc' = "done"
    /\ UNCHANGED <<std_chan, frame_ch, b_frame, producer_vars, encoder_vars, shutdown_vars,
                   config_vars, catalog_vars, db_failures>>

\* frame_tx.send(frame).await on mpsc::channel(300): waits while the channel is
\* full, fails when the encoder dropped the receiver ("Encoder channel closed
\* unexpectedly", break: the bridge ends and drops frame_rx_std with its queue)
BridgeSend ==
    /\ b_pc = "send"
    /\ IF e_pc = "done"
       THEN /\ b_pc' = "done"
            /\ b_frame' = 0
            /\ std_chan' = <<>>
            /\ UNCHANGED frame_ch
       ELSE /\ Len(frame_ch) < ChannelCapacity
            /\ frame_ch' = Append(frame_ch, b_frame)
            /\ b_frame' = 0
            /\ b_pc' = "recv"
            /\ UNCHANGED std_chan
    /\ UNCHANGED <<producer_vars, encoder_vars, shutdown_vars, config_vars, catalog_vars,
                   db_failures>>

\* ---- encoder: VideoEncoder and SubprocessEncoder ----

\* VideoEncoder::new_with_pts_offset / SubprocessEncoder::new_with_pts_offset
NewEncoder(pts_offset) ==
    [frame_count |-> 0, pts_offset |-> pts_offset, packets |-> 0,
     last_packet_keyframe |-> FALSE, last_packet_pts |-> -1]

\* VideoEncoder::receive_packets after send_frame: the codec has taken
\* frame_count + 1 frames and holds back `delay` of them; every packet it hands
\* out is written and recorded in last_packet_*. Packet j is a keyframe iff
\* j is a multiple of the GOP (no B-frames, no scene cuts).
ReceivePackets(enc, ready) ==
    IF ready > enc.packets
    THEN [enc EXCEPT !.packets = ready,
                     !.last_packet_keyframe = ((ready - 1) % gop_size = 0),
                     !.last_packet_pts = ready - 1]
    ELSE enc

\* VideoEncoder::encode_frame: [enc, metadata]
\* let pts = self.frame_count as i64: the pts a frame is submitted with
FramePts(enc) == enc.frame_count

\* a counter advanced once per send_frame call, the re-send included
FrameCountPerSend(count) == count + 2

\* self.frame_count += 1, once at the end of encode_frame
FrameCountAfter(count) == count + 1

LibraryEncodeFrame(enc) ==
    LET after == ReceivePackets(enc, enc.frame_count + 1 - encoder_backend.delay)
    IN  [enc |-> [after EXCEPT !.frame_count = FrameCountAfter(enc.frame_count)],
         metadata |-> [is_keyframe |-> after.last_packet_keyframe,
                       pts |-> after.last_packet_pts]]

\* SubprocessEncoder::encode_frame: the metadata is derived from frame_count
SubprocessEncodeFrame(enc) ==
    [enc |-> [enc EXCEPT !.frame_count = FrameCountAfter(enc.frame_count)],
     metadata |-> [is_keyframe |-> (enc.frame_count % gop_size = 0),
                   pts |-> FramePts(enc)]]

EncodeFrame(enc) ==
    IF encoder_backend.kind = "library" THEN LibraryEncodeFrame(enc)
    ELSE SubprocessEncodeFrame(enc)

\* VideoEncoder::get_next_pts
GetNextPts(enc) == enc.pts_offset + enc.frame_count

\* finish(): send_eof and receive_packets (or closing ffmpeg's stdin) flush the
\* frames held back, then the trailer is written. The entry of chunk_outputs
\* records the file: its packets, and as history the chunk row it was
\* catalogued under and the frame rows that chunk row has at this moment.
Finish(enc, rows) ==
    [packets |-> enc.frame_count, chunk_row |-> open_chunk[Me],
     rows |-> {j \in 1..Len(rows) : open_chunk[Me] # 0 /\ rows[j].video_chunk_id = open_chunk[Me]}]

\* ---- process_frames_chunked ----

\* a plausible slip: an off-by-one in the rollover test closes every chunk one
\* frame early
RolloverWhenFull(in_chunk) == in_chunk + 1 >= frames_per_chunk

\* if frames_in_current_chunk >= frames_per_chunk
RolloverDue(in_chunk) == in_chunk >= frames_per_chunk

\* db.insert_video_chunk(...) as called by the encoder: the table afterwards;
\* ok = FALSE: it returned an error, which is logged
OpenChunkRow(ok, chunks, index) ==
    IF ok THEN Append(chunks, ChunkRow(chunks, rec_device[Me], TaskOf(Me), index)) ELSE chunks

\* the chunk row the newly opened file is catalogued under (0: none)
OpenedChunkId(ok, chunks) == IF ok THEN Len(chunks) + 1 ELSE 0

\* a plausible slip: the INSERT is not rolled back when the commit fails
AppendFrameRowNoRollback(ok, chunks, rows, metadata, enc_chunk) ==
    LET c == LatestChunkIdIn(chunks, rec_device[Me])
    IN  IF c # 0
        THEN Append(rows, FrameRow(c, NextOffsetIndexIn(rows, c), metadata.is_keyframe,
                                   enc_chunk))
        ELSE rows

\* db.insert_frame(...) by the encoder's connection, alone on the catalog: the
\* transaction runs through, or it returns an error and leaves no row
\* (ok = FALSE, or no chunk row exists for the device)
AppendFrameRow(ok, chunks, rows, metadata, enc_chunk) ==
    LET c == LatestChunkIdIn(chunks, rec_device[Me])
    IN  IF ok /\ c # 0
        THEN Append(rows, FrameRow(c, NextOffsetIndexIn(rows, c), metadata.is_keyframe,
                                   enc_chunk))
        ELSE rows

Failed(ok) == IF ok THEN 0 ELSE 1

\* before the loop: the first encoder and the first chunk row
EncoderStart ==
    /\ e_pc = "init"
    /\ current_encoder' = NewEncoder(0)
    /\ \E chunk_ok \in BOOLEAN :
          /\ db_failures + Failed(chunk_ok) <= MaxDbFailures
          /\ db_failures' = db_failures + Failed(chunk_ok)
          /\ video_chunks' = OpenChunkRow(chunk_ok, video_chunks, 0)
          /\ open_chunk' = [open_chunk EXCEPT ![Me] = OpenedChunkId(chunk_ok, video_chunks)]
    /\ e_pc' = "loop"
    /\ UNCHANGED <<chunk_index, frames_in_current_chunk, chunk_outputs, submitted, frames,
                   rec_device, cat_pc, tx_chunk_id, tx_offset, tx_stale,
                   producer_vars, bridge_vars, shutdown_vars, config_vars>>

\* rx.recv() returned a frame: roll over if due, encode the frame, append its row
EncoderFrameWith(chunk_ok, frame_ok) ==
    /\ e_pc = "loop"
    /\ frame_ch # <<>>
    /\    LET roll == RolloverDue(frames_in_current_chunk)
              chunks1 == IF roll THEN OpenChunkRow(chunk_ok, video_chunks, chunk_index + 1)
                         ELSE video_chunks
              open1 == IF roll THEN OpenedChunkId(chunk_ok, video_chunks) ELSE open_chunk[Me]
              enc0 == IF roll THEN NewEncoder(GetNextPts(current_encoder))
                      ELSE current_encoder
              res == EncodeFrame(enc0)
              nfail == Failed(roll => chunk_ok) + Failed(frame_ok)
          IN  /\ ~roll => chunk_ok
              /\ db_failures + nfail <= MaxDbFailures
              /\ db_failures' = db_failures + nfail
              /\ chunk_outputs' = IF roll
                                  THEN Append(chunk_outputs, Finish(current_encoder, frames))
                                  ELSE chunk_outputs
              /\ chunk_index' = IF roll THEN chunk_index + 1 ELSE chunk_index
              /\ video_chunks' = chunks1
              /\ open_chunk' = [open_chunk EXCEPT ![Me] = open1]
              /\ current_encoder' = res.enc
              /\ frames_in_current_chunk' =
                     IF roll THEN 1 ELSE frames_in_current_chunk + 1
              /\ frames' = AppendFrameRow(frame_ok, chunks1, frames, res.metadata, open1)
    /\ frame_ch' = Tail(frame_ch)
    /\ submitted' = Append(submitted, Head(frame_ch))
    /\ UNCHANGED <<e_pc, rec_device, cat_pc, tx_chunk_id, tx_offset, tx_stale,
                   producer_vars, std_chan, b_pc, b_frame, shutdown_vars, config_vars>>

\* the same, whatever the catalog answers
EncoderFrame == \E chunk_ok, frame_ok \in BOOLEAN : EncoderFrameWith(chunk_ok, frame_ok)

\* a plausible slip: the function returns as soon as the loop ends
ReturnWithoutFinish ==
    /\ e_pc' = "done"
    /\ frame_ch' = <<>>
    /\ UNCHANGED <<chunk_outputs, chunk_index, frames_in_current_chunk, current_encoder,
                   submitted, catalog_vars, db_failures, producer_vars, std_chan, b_pc,
                   b_frame, shutdown_vars, config_vars>>

\* after the loop: "Finishing final chunk", current_encoder.finish()
FinishFinalChunk ==
    /\ chunk_outputs' = Append(chunk_outputs, Finish(current_encoder, frames))
    /\ e_pc' = "done"
    /\ frame_ch' = <<>>
    /\ UNCHANGED <<chunk_index, frames_in_current_chunk, current_encoder, submitted,
                   catalog_vars, db_failures, producer_vars, std_chan, b_pc, b_frame,
                   shutdown_vars, config_vars>>

\* rx.recv() returned None: the channel is empty and the bridge dropped frame_tx
EncoderChannelClosed ==
    /\ e_pc = "loop"
    /\ frame_ch = <<>>
    /\ b_pc = "done"
    /\ FinishFinalChunk

\* select!: the shutdown branch completed ("Shutdown signal received,
\* finalizing current chunk..."); the receiver and the frames queued in it are
\* dropped when the function returns
EncoderShutdown ==
    /\ e_pc = "loop"
    /\ shutdown_sent
    /\ FinishFinalChunk

\* ---- shutdown: the Ctrl+C handler, the SIGTERM task, the end of main ----

\* Database::end_recording_session(sid, ended_at): sets the session's end time
EndRecordingSession(writer) == session_ended_at' = writer

\* ctrlc handler, first part: "Received Ctrl+C"; for a session the update of
\* ended_at is handed to a new thread (std::thread::spawn), which is not joined
CtrlCReceived ==
    /\ main_pc # "done"
    /\ ctrlc_pc = "idle"
    /\ end_thread' = IF session_id # 0 THEN "running" ELSE end_thread
    /\ ctrlc_pc' = "signal"
    /\ UNCHANGED <<running, shutdown_tx, shutdown_sent, sigterm_pc, main_pc,
                   session_ended_at, producer_vars, bridge_vars, encoder_vars, config_vars,
                   catalog_vars, db_failures>>

\* the spawned thread: rt.block_on(db_clone.end_recording_session(...))
EndSessionThread ==
    /\ main_pc # "done"
    /\ end_thread = "running"
    /\ EndRecordingSession("ctrlc")
    /\ end_thread' = "done"
    /\ UNCHANGED <<running, shutdown_tx, shutdown_sent, ctrlc_pc, sigterm_pc, main_pc,
                   producer_vars, bridge_vars, encoder_vars, config_vars, catalog_vars,
                   db_failures>>

\* the sender is left in the Option: as_ref() in place of take()
SendKeepingSender ==
    /\ shutdown_sent' = (shutdown_sent \/ shutdown_tx)
    /\ shutdown_tx' = shutdown_tx

\* if let Some(tx) = tx_opt.take() { tx.send(()) }, under the mutex
TakeAndSend ==
    /\ shutdown_sent' = (shutdown_sent \/ shutdown_tx)
    /\ shutdown_tx' = FALSE

\* ctrlc handler, second part: signal the encoder (and sleep 500 ms)
CtrlCSignal ==
    /\ main_pc # "done"
    /\ ctrlc_pc = "signal"
    /\ TakeAndSend
    /\ ctrlc_pc' = "stop"
    /\ UNCHANGED <<running, sigterm_pc, end_thread, main_pc, session_ended_at,
                   producer_vars, bridge_vars, encoder_vars, config_vars, catalog_vars,
                   db_failures>>

\* ctrlc handler, last part: r.store(false)
CtrlCStop ==
    /\ main_pc # "done"
    /\ ctrlc_pc = "stop"
    /\ running' = FALSE
    /\ ctrlc_pc' = "done"
    /\ UNCHANGED <<shutdown_tx, shutdown_sent, sigterm_pc, end_thread, main_pc,
                   session_ended_at, producer_vars, bridge_vars, encoder_vars, config_vars,
                   catalog_vars, db_failures>>

\* SIGTERM task: sigterm.recv() returned, end_recording_session(...).await
SigtermEndSession ==
    /\ main_pc # "done"
    /\ sigterm_pc = "wait"
    /\ IF session_id # 0 THEN EndRecordingSession("sigterm") ELSE UNCHANGED session_ended_at
    /\ sigterm_pc' = "signal"
    /\ UNCHANGED <<running, shutdown_tx, shutdown_sent, ctrlc_pc, end_thread, main_pc,
                   producer_vars, bridge_vars, encoder_vars, config_vars, catalog_vars,
                   db_failures>>

\* SIGTERM task: signal the encoder
SigtermSignal ==
    /\ main_pc # "done"
    /\ sigterm_pc = "signal"
    /\ TakeAndSend
    /\ sigterm_pc' = "stop"
    /\ UNCHANGED <<running, ctrlc_pc, end_thread, main_pc, session_ended_at,
                   producer_vars, bridge_vars, encoder_vars, config_vars, catalog_vars,
                   db_failures>>

\* SIGTERM task: after the 500 ms sleep, running_sigterm.store(false)
SigtermStop ==
    /\ main_pc # "done"
    /\ sigterm_pc = "stop"
    /\ running' = FALSE
    /\ sigterm_pc' = "done"
    /\ UNCHANGED <<shutdown_tx, shutdown_sent, ctrlc_pc, end_thread, main_pc,
                   session_ended_at, producer_vars, bridge_vars, encoder_vars, config_vars,
                   catalog_vars, db_failures>>

\* main: capture thread joined, bridge and encoder awaited, then the session's
\* end time is updated and the command returns
MainFinish ==
    /\ main_pc = "join"
    /\ p_pc = "done" /\ b_pc = "done" /\ e_pc = "done"
    /\ IF session_id # 0 THEN EndRecordingSession("main") ELSE UNCHANGED session_ended_at
    /\ main_pc' = "done"
    /\ UNCHANGED <<running, shutdown_tx, shutdown_sent, ctrlc_pc, sigterm_pc, end_thread,
                   producer_vars, bridge_vars, encoder_vars, config_vars, catalog_vars,
                   db_failures>>

\* ---- monitor switch policy (multi-monitor capture) ----

Displays == {"d0", "d1", "d2"}

\* --monitor-switch-interval, in ticks
CheckIntervals == {0, 1, 2}

\* what a check learns about the cursor: the display it is on, or nothing
\* (get_cursor_position() is None, or get_display_at_cursor() is Err)
CursorOutcomes == Displays \cup {"unresolved"}

\* MonitorSwitchDetector::new(check_interval, initial_display) at time now
NewSwitchDetector(interval, initial_display, now) ==
    [check_interval |-> interval, last_check |-> now, current_display |-> initial_display,
     pending_display |-> "none", pending_count |-> 0]

\* a plausible slip: a sighting on the current display leaves the pending
\* display and its count as they are
PendingKeptOnSameDisplay(det) == det

\* "If cursor is on same display, reset pending"
PendingResetOnSameDisplay(det) ==
    [det EXCEPT !.pending_display = "none", !.pending_count = 0]

\* MonitorSwitchDetector::check_for_switch: the detector afterwards, the value
\* returned, and whether the call ended at the interval gate
check_for_switch(det, now, outcome) ==
    IF now - det.last_check < det.check_interval
    THEN [det |-> det, ret |-> "none", gated |-> TRUE]
    ELSE LET d1 == [det EXCEPT !.last_check = now]
         IN  IF outcome = "unresolved"
             THEN [det |-> d1, ret |-> "none", gated |-> FALSE]
             ELSE IF outcome = det.current_display
             THEN [det |-> PendingResetOnSameDisplay(d1), ret |-> "none", gated |-> FALSE]
             ELSE IF outcome = det.pending_display
             THEN IF det.pending_count + 1 >= 2
                  THEN [det |-> [d1 EXCEPT !.current_display = outcome,
                                           !.pending_display = "none",
                                           !.pending_count = 0],
                        ret |-> outcome, gated |-> FALSE]
                  ELSE [det |-> [d1 EXCEPT !.pending_count = det.pending_count + 1],
                        ret |-> "none", gated |-> FALSE]
             ELSE [det |-> [d1 EXCEPT !.pending_display = outcome, !.pending_count = 1],
                   ret |-> "none", gated |-> FALSE]

\* one iteration of the multi-monitor capture loop asks the policy
CheckForSwitch ==
    /\ \E outcome \in CursorOutcomes :
          LET r == check_for_switch(switch_detector, sw_now, outcome)
          IN  /\ ~r.gated => Len(checks) < MaxChecks
              /\ switch_detector' = r.det
              /\ checks' = IF r.gated THEN checks ELSE Append(checks, outcome)
              /\ sw_return' = [value |-> r.ret, from |-> switch_detector.current_display]
    /\ UNCHANGED <<sw_now, catalog_vars, recording_vars>>

\* time passes between two iterations
SwitchTick ==
    /\ sw_now < MaxClock
    /\ sw_now' = sw_now + 1
    /\ UNCHANGED <<switch_detector, checks, sw_return, catalog_vars, recording_vars>>

\* the capture runs on a single monitor: no detector is consulted
SwitchAtRest ==
    /\ switch_detector = NewSwitchDetector(1, "d0", 0)
    /\ sw_now = 0
    /\ checks = <<>>
    /\ sw_return = [value |-> "none", from |-> "d0"]

\* ---- VideoEncoder::new_with_pts_offset: backend selection ----

\* get_encoder_priority_list() (macOS): names in priority order
EncoderPriorityList == <<"h264_videotoolbox", "libx264", "h264">>

\* EncoderInfo::priority (lower is higher priority)
Priority(name) ==
    IF name = "h264_videotoolbox" THEN 0 ELSE IF name = "libx264" THEN 10 ELSE 11

\* get_available_encoders(): the entries of the priority list the codec
\* library finds, in the list's order
AvailableEncoderLists ==
    {SelectSeq(EncoderPriorityList, LAMBDA n : n \in found) :
        found \in SUBSET {EncoderPriorityList[i] : i \in 1..Len(EncoderPriorityList)}}

\* RetryConfig::default()
RetryConfig == [max_retries |-> 3, initial_delay_ms |-> 100, backoff_multiplier |-> 3]

\* a plausible slip: the delay grows linearly
get_delay_ms_linear(attempt) == RetryConfig.initial_delay_ms * attempt

\* RetryConfig::get_delay_ms
get_delay_ms(attempt) ==
    IF attempt = 0 THEN 0
    ELSE RetryConfig.initial_delay_ms * RetryConfig.backoff_multiplier ^ (attempt - 1)

\* the errors try_init_encoder_once returns: find_by_name found nothing, or
\* open_with failed and the codec library's message is wrapped (the messages
\* of the operating system begin with a capital: "No such device")
InitErrors ==
    {[variant |-> "HardwareEncoderUnavailable", message |-> "Encoder not found"],
     [variant |-> "EncodingError", message |-> "Failed to open encoder: No such device"],
     [variant |-> "EncoderBusy", message |-> "Encoder is busy: Resource busy"]}

\* format!("{:?}", err) of a ScreenRecError (derive(Debug)): the variant's
\* name and the quoted message
ErrorDebug(err) == err.variant \o "(\"" \o err.message \o "\")"

\* str::contains
Contains(text, pat) ==
    \E i \in 1..(Len(text) - Len(pat) + 1) : SubSeq(text, i, i + Len(pat) - 1) = pat

\* a plausible slip: only the first of the two patterns is tested
NoRetryOnNotFoundOnly(error_str) == Contains(error_str, "not found")

\* error_str.contains("not found") || error_str.contains("No such"):
\* "Don't retry if encoder doesn't exist"
NoRetry(error_str) == Contains(error_str, "not found") \/ Contains(error_str, "No such")

\* what try_init_encoder_once gives, as try_init_encoder_with_retries takes
\* it: the encoder, an error worth a retry, or an error that ends the retries
InitOutcomes == {"ok", "busy", "not_found"}

\* try_init_encoder_once returned Ok(encoder)
InitOk == [variant |-> "Ok", message |-> "encoder"]

InitOutcomeOf(res) ==
    IF res = InitOk THEN "ok"
    ELSE IF NoRetry(ErrorDebug(res)) THEN "not_found"
    ELSE "busy"

\* the text of the error in the log ("none" for a success)
InitTextOf(res) == IF res = InitOk THEN "none" ELSE ErrorDebug(res)

\* a plausible slip: the backend after the next one is tried
SkipEncoder(idx) == idx + 2

\* for encoder_info in &available_encoders: the next backend of the chain
NextEncoder(idx) == idx + 1

\* Err(ScreenRecError::EncodingError(text))
EncodingError(text, name) == [status |-> "EncodingError", error |-> text, selected |-> name]

\* the call begins: ffmpeg::init() and ffmpeg::format::output(&output_path)
\* may fail; "No H.264 encoders available on this system" when the list is
\* empty; else the first backend is attempted
NewWithPtsOffsetBegin ==
    /\ init_pc = "start"
    /\ \E container_ok \in BOOLEAN :
          IF ~container_ok
          THEN /\ init_pc' = "done"
               /\ init_result' = EncodingError("Failed to create output context", "none")
               /\ UNCHANGED <<init_idx, init_attempt>>
          ELSE IF available_encoders = <<>>
          THEN /\ init_pc' = "done"
               /\ init_result' = EncodingError("No H.264 encoders available", "none")
               /\ UNCHANGED <<init_idx, init_attempt>>
          ELSE /\ init_pc' = "attempt"
               /\ init_idx' = 1
               /\ init_attempt' = 0
               /\ UNCHANGED init_result
    /\ UNCHANGED <<available_encoders, init_log, catalog_vars, recording_vars, switch_vars,
                   session_vars, fault_vars, command_vars>>

\* one turn of the loop of try_init_encoder_with_retries for the backend at
\* init_idx: sleep before a retry, try_init_encoder_once; on success the rest
\* of new_with_pts_offset (add_stream, write_header, which may fail), on the
\* last failure its step to the next backend
InitAttempt ==
    /\ init_pc = "attempt"
    /\ \E res \in InitErrors \cup {InitOk}, header_ok \in BOOLEAN :
          LET name == available_encoders[init_idx]
              outcome == InitOutcomeOf(res)
              given_up == outcome = "not_found" \/ init_attempt = RetryConfig.max_retries
          IN  /\ init_log' = Append(init_log, [encoder |-> name, attempt |-> init_attempt,
                                               delay |-> get_delay_ms(init_attempt),
                                               outcome |-> outcome,
                                               text |-> InitTextOf(res)])
              /\ outcome # "ok" => header_ok
              /\ IF outcome = "ok"
                 THEN /\ init_pc' = "done"
                      /\ init_result' = IF header_ok
                                        THEN [status |-> "ok", error |-> "none",
                                              selected |-> name]
                                        ELSE EncodingError("Failed to write header", name)
                      /\ UNCHANGED <<init_idx, init_attempt>>
                 ELSE IF ~given_up
                 THEN /\ init_attempt' = init_attempt + 1
                      /\ UNCHANGED <<init_pc, init_idx, init_result>>
                 ELSE IF NextEncoder(init_idx) <= Len(available_encoders)
                 THEN /\ init_idx' = NextEncoder(init_idx)
                      /\ init_attempt' = 0
                      /\ UNCHANGED <<init_pc, init_result>>
                 ELSE \* "All encoders failed. Tried: ..."
                      /\ init_pc' = "done"
                      /\ init_idx' = NextEncoder(init_idx)
                      /\ init_result' = EncodingError("All encoders failed", "none")
                      /\ UNCHANGED init_attempt
    /\ UNCHANGED <<available_encoders, catalog_vars, recording_vars, switch_vars, session_vars,
                   fault_vars, command_vars>>

\* no encoder is being opened
EncoderInitAtRest ==
    /\ available_encoders = EncoderPriorityList
    /\ init_pc = "start"
    /\ init_idx = 0
    /\ init_attempt = 0
    /\ init_log = <<>>
    /\ init_result = [status |-> "none", error |-> "none", selected |-> "none"]

\* ---- VideoEncoder at run time: failure and fallback ----

\* the backends get_available_encoders() reports
AvailableNames == {available_encoders[i] : i \in 1..Len(available_encoders)}

\* try_recover_encoder: available_encoders.iter().find(|e| e.priority >
\* current_priority), "none" when there is no such backend
FallbackEncoder(current) ==
    LET lower == {i \in 1..Len(available_encoders) :
                      Priority(available_encoders[i]) > Priority(current)}
    IN  IF lower = {} THEN "none"
        ELSE available_encoders[CHOOSE i \in lower : \A j \in lower : i <= j]

\* a plausible slip: the error of the second send_frame is dropped
ResendErrorIgnored(resend_ok) == FALSE

\* self.encoder.send_frame(&yuv_frame).map_err(...)? after the recovery
ResendFailed(resend_ok) == ~resend_ok

\* VideoEncoder::encode_frame from send_frame on, for an encoder on backend
\* `current`: send_ok, the first send_frame; init_ok, try_init_encoder_once of
\* the fallback; resend_ok, the second send_frame; drain_ok, write_interleaved
\* in receive_packets. Gives the result, the backend afterwards, and counts of
\* the calls of try_recover_encoder, of try_init_encoder_once and of the second
\* send_frame.
EncodeFrameOutcome(current, send_ok, init_ok, resend_ok, drain_ok) ==
    LET fallback == FallbackEncoder(current)
        Out(result, info, nrecover, ninit, nresend) ==
            [result |-> result, info |-> info, fallback |-> fallback,
             recover_calls |-> nrecover, init_calls |-> ninit, resends |-> nresend]
    IN  IF send_ok
        THEN IF drain_ok THEN Out("ok", current, 0, 0, 0)
             ELSE Out("EncodingError", current, 0, 0, 0)
        ELSE IF fallback = "none" THEN Out("EncoderRuntimeFailure", current, 1, 0, 0)
        ELSE IF ~init_ok THEN Out("EncoderRuntimeFailure", current, 1, 1, 0)
        ELSE IF ResendFailed(resend_ok) THEN Out("EncoderRuntimeFailure", fallback, 1, 1, 1)
        ELSE IF drain_ok THEN Out("ok", fallback, 1, 1, 1)
        ELSE Out("EncodingError", fallback, 1, 1, 1)

\* rx.recv() returned a frame and encode_frame met a failure of the codec or
\* of the muxer. When encode_frame still returns Ok the iteration goes on as
\* in EncoderFrame; when it returns Err the `?` leaves process_frames_chunked
\* at once: a rollover that was due has happened, the frame has no row, the
\* open chunk is not finished and the receiver is dropped.
EncoderFrameFaulty ==
    /\ e_pc = "loop"
    /\ frame_ch # <<>>
    /\ encoder_faults < MaxEncoderFaults
    /\ encoder_faults' = encoder_faults + 1
    /\ \E send_ok, init_ok, resend_ok, drain_ok \in BOOLEAN, selected \in AvailableNames :
          LET roll == RolloverDue(frames_in_current_chunk)
              backend == IF roll THEN selected ELSE encoder_info
              out == EncodeFrameOutcome(backend, send_ok, init_ok, resend_ok, drain_ok)
          IN  /\ ~(send_ok /\ drain_ok)
              /\ send_ok => (init_ok /\ resend_ok)
              /\ ~roll => selected = encoder_info
              /\ encoder_info' = out.info
              /\ recoveries' = Append(recoveries,
                     [frame |-> Head(frame_ch), from |-> backend, send_ok |-> send_ok,
                      init_ok |-> init_ok, resend_ok |-> resend_ok, drain_ok |-> drain_ok,
                      rows_before |-> Len(frames), out |-> out])
              /\ IF out.result = "ok"
                 THEN /\ EncoderFrame
                      /\ UNCHANGED e_result
                 ELSE /\ e_result' = out.result
                      /\ e_pc' = "done"
                      /\ frame_ch' = <<>>
                      /\ submitted' = Append(submitted, Head(frame_ch))
                      /\ \E chunk_ok \in BOOLEAN :
                            /\ ~roll => chunk_ok
                            /\ db_failures + Failed(chunk_ok) <= MaxDbFailures
                            /\ db_failures' = db_failures + Failed(chunk_ok)
                            /\ video_chunks' =
                                   IF roll
                                   THEN OpenChunkRow(chunk_ok, video_chunks, chunk_index + 1)
                                   ELSE video_chunks
                            /\ open_chunk' =
                                   IF roll
                                   THEN [open_chunk EXCEPT
                                            ![Me] = OpenedChunkId(chunk_ok, video_chunks)]
                                   ELSE open_chunk
                      /\ chunk_outputs' =
                             IF roll THEN Append(chunk_outputs, Finish(current_encoder, frames))
                             ELSE chunk_outputs
                      /\ chunk_index' = IF roll THEN chunk_index + 1 ELSE chunk_index
                      /\ frames_in_current_chunk' = IF roll THEN 0 ELSE frames_in_current_chunk
                      /\ current_encoder' =
                             IF roll THEN NewEncoder(GetNextPts(current_encoder))
                             ELSE current_encoder
                      /\ UNCHANGED <<frames, rec_device, cat_pc, tx_chunk_id, tx_offset,
                                     tx_stale, producer_vars, std_chan, b_pc, b_frame,
                                     shutdown_vars, config_vars>>

\* the first chunk is opened: new_with_pts_offset selects a backend
EncoderStartSelecting ==
    /\ EncoderStart
    /\ encoder_info' \in AvailableNames
    /\ UNCHANGED <<encoder_faults, e_result, recoveries>>

\* a frame is encoded without a failure; a rollover selects a backend anew
EncoderFrameSound ==
    /\ EncoderFrame
    /\ IF RolloverDue(frames_in_current_chunk)
       THEN encoder_info' \in AvailableNames
       ELSE UNCHANGED encoder_info
    /\ UNCHANGED <<encoder_faults, e_result, recoveries>>

\* no encoder has failed
FaultsAtRest ==
    /\ encoder_info = "none"
    /\ encoder_faults = 0
    /\ e_result = "none"
    /\ recoveries = <<>>

\* ---- the catalog under deletion: insert_video_chunk, insert_frame, delete_chunk ----

\* the devices whose rows are inserted and deleted
AdminDevices == {"hostA"}

\* INSERT INTO video_chunks: the row gets the next AUTOINCREMENT id
AdminInsertVideoChunk ==
    /\ next_rowid.chunks < MaxRowIds
    /\ \E device \in AdminDevices :
          chunk_table' = chunk_table \cup
                             {[id |-> next_rowid.chunks + 1, device_name |-> device]}
    /\ next_rowid' = [next_rowid EXCEPT !.chunks = @ + 1]
    /\ UNCHANGED <<foreign_keys, frame_table>>

\* insert_frame in one piece: the latest chunk of the device (RowNotFound when
\* it has none: nothing is written), the next offset_index, the INSERT
AdminInsertFrame ==
    /\ next_rowid.frames < MaxRowIds
    /\ \E device \in AdminDevices :
          LET ids == {c.id : c \in {d \in chunk_table : d.device_name = device}}
              chunk_id == Max(ids)
              offsets == {f.offset_index : f \in {g \in frame_table :
                                                      g.video_chunk_id = chunk_id}}
          IN  /\ ids # {}
              /\ frame_table' = frame_table \cup
                     {[id |-> next_rowid.frames + 1, video_chunk_id |-> chunk_id,
                       offset_index |-> IF offsets = {} THEN 0 ELSE Max(offsets) + 1]}
    /\ next_rowid' = [next_rowid EXCEPT !.frames = @ + 1]
    /\ UNCHANGED <<foreign_keys, chunk_table>>

\* FOREIGN KEY (video_chunk_id) REFERENCES video_chunks(id), with no ON DELETE
\* clause: deleting the parent row deletes no frame row
FramesKeptAfterDelete(chunk_id) == frame_table

\* Database::delete_chunk: DELETE FROM video_chunks WHERE id = ?1. With the
\* constraint enforced the statement fails while a frame row references the
\* chunk, and nothing changes; without it the chunk row goes and its frame
\* rows stay.
DeleteChunk ==
    /\ \E chunk_id \in 1..MaxRowIds :
          LET kept == FramesKeptAfterDelete(chunk_id)
              referenced == \E f \in kept : f.video_chunk_id = chunk_id
          IN  IF foreign_keys /\ referenced
              THEN UNCHANGED <<chunk_table, frame_table>>
              ELSE /\ \E c \in chunk_table : c.id = chunk_id
                   /\ chunk_table' = {c \in chunk_table : c.id # chunk_id}
                   /\ frame_table' = kept
    /\ UNCHANGED <<foreign_keys, next_rowid>>

\* an empty catalog on a connection that enforces foreign keys
AdminAtRest ==
    /\ foreign_keys = TRUE
    /\ chunk_table = {}
    /\ frame_table = {}
    /\ next_rowid = [chunks |-> 0, frames |-> 0]

\* ---- main: the record command before the pipeline ----

\* --fps values at and around the limits
RecordFpsValues == {0, 1, 60, 61}

\* what the command line and the machine give the record command
RecordArgs ==
    [fps : RecordFpsValues, recording_type : {"always_on", "task"}, task_id : {"none", "t1"},
     ffmpeg : {"missing", "broken", "ok"}]

\* a plausible slip: only the lower limit of the FPS is checked
ValidateRecordNoUpperLimit(args) ==
    IF args.recording_type = "task" /\ args.task_id = "none" THEN "InvalidParameter"
    ELSE IF args.fps = 0 THEN "InvalidParameter"
    ELSE "ok"

\* "Validate recording type requirements" and "Validate FPS"
ValidateRecord(args) ==
    IF args.recording_type = "task" /\ args.task_id = "none" THEN "InvalidParameter"
    ELSE IF args.fps = 0 \/ args.fps > 60 THEN "InvalidParameter"
    ELSE "ok"

\* find_ffmpeg_binary(...)? and validate_ffmpeg: the first thing the branch does
RecordFindFfmpeg ==
    /\ record_pc = "start"
    /\ IF record_args.ffmpeg = "ok"
       THEN record_pc' = "validate" /\ UNCHANGED record_result
       ELSE record_pc' = "done" /\ record_result' = "ConfigError"
    /\ UNCHANGED <<record_args, created>>

\* the two validations, task_id first
RecordValidate ==
    /\ record_pc = "validate"
    /\ IF ValidateRecord(record_args) = "ok"
       THEN record_pc' = "directories" /\ UNCHANGED record_result
       ELSE record_pc' = "done" /\ record_result' = ValidateRecord(record_args)
    /\ UNCHANGED <<record_args, created>>

\* dirs::home_dir() and create_dir_all(&output_dir)
RecordCreateDirectories ==
    /\ record_pc = "directories"
    /\ \E home_ok, dir_ok \in BOOLEAN :
          IF home_ok /\ dir_ok
          THEN /\ created' = created \cup {"output_dir"}
               /\ record_pc' = "catalog"
               /\ UNCHANGED record_result
          ELSE /\ record_pc' = "done"
               /\ record_result' = "ConfigError"
               /\ UNCHANGED created
    /\ UNCHANGED record_args

\* Database::new(&db_path): sqlite mode=rwc creates the file, then the schema
RecordOpenCatalog ==
    /\ record_pc = "catalog"
    /\ \E connect_ok, schema_ok \in BOOLEAN :
          /\ connect_ok \/ schema_ok
          /\ created' = IF connect_ok THEN created \cup {"catalog_file"} ELSE created
          /\ IF connect_ok /\ schema_ok
             THEN record_pc' = "session" /\ UNCHANGED record_result
             ELSE record_pc' = "done" /\ record_result' = "DatabaseError"
    /\ UNCHANGED record_args

\* create_recording_session for a task recording
RecordCreateSession ==
    /\ record_pc = "session"
    /\ IF record_args.recording_type = "task" /\ record_args.task_id # "none"
       THEN \E session_ok \in BOOLEAN :
               IF session_ok
               THEN /\ created' = created \cup {"session_row"}
                    /\ record_pc' = "pipeline"
                    /\ UNCHANGED record_result
               ELSE /\ record_pc' = "done"
                    /\ record_result' = "DatabaseError"
                    /\ UNCHANGED created
       ELSE /\ record_pc' = "pipeline"
            /\ UNCHANGED <<record_result, created>>
    /\ UNCHANGED record_args

\* the capture thread, the bridge and the encoder are started; the encoder
\* opens the first chunk
RecordStartPipeline ==
    /\ record_pc = "pipeline"
    /\ record_pc' = "recording"
    /\ created' = created \cup {"chunk"}
    /\ UNCHANGED <<record_args, record_result>>

\* ---- main: the concat command ----

\* const MAX_RETRIES: u32 = 3
MAX_RETRIES == 3

\* a chunk row and what the file system and ffprobe say about its file;
\* fps and duration are <<>> for NULL / "N/A" and <<v>> for a value
ChunkOnDisk(path, rate, exists, size, stream, codec, dur, readable) ==
    [file_path |-> path, fps |-> rate, exists |-> exists, file_size |-> size,
     has_stream |-> stream, codec_name |-> codec, duration |-> dur, readable |-> readable]

\* chunk rows at and around every limit of the validation
ConcatChunkRows ==
    { ChunkOnDisk("good.mp4", <<30>>, TRUE, 1024, TRUE, "h264", <<1>>, TRUE),
      ChunkOnDisk("hevc.mp4", <<>>, TRUE, 4096, TRUE, "hevc", <<3599>>, TRUE),
      ChunkOnDisk("gone.mp4", <<24>>, FALSE, 0, FALSE, "none", <<>>, FALSE),
      ChunkOnDisk("small.mp4", <<30>>, TRUE, 1023, TRUE, "h264", <<1>>, TRUE),
      ChunkOnDisk("audio.mp4", <<30>>, TRUE, 4096, FALSE, "none", <<1>>, TRUE),
      ChunkOnDisk("vp9.mp4", <<30>>, TRUE, 4096, TRUE, "vp9", <<1>>, TRUE),
      ChunkOnDisk("empty.mp4", <<30>>, TRUE, 4096, TRUE, "h264", <<0>>, TRUE),
      ChunkOnDisk("hour.mp4", <<30>>, TRUE, 4096, TRUE, "h264", <<3600>>, TRUE),
      ChunkOnDisk("live.mp4", <<30>>, TRUE, 4096, TRUE, "h264", <<>>, TRUE),
      ChunkOnDisk("torn.mp4", <<30>>, TRUE, 4096, TRUE, "h264", <<1>>, FALSE) }

\* display_width and display_height of frame rows: <<>> for NULL
ConcatFrameRows ==
    { [display_width |-> <<>>, display_height |-> <<>>],
      [display_width |-> <<2>>, display_height |-> <<>>],
      [display_width |-> <<1>>, display_height |-> <<2>>],
      [display_width |-> <<2>>, display_height |-> <<1>>],
      [display_width |-> <<2>>, display_height |-> <<2>>] }

\* sequences of at most n elements of S
SeqUpTo(S, n) == UNION {[1..k -> S] : k \in 0..n}

\* a plausible slip: a file of exactly 1024 bytes is skipped too
TooSmallInclusive(file_size) == file_size <= 1024

\* if file_size < 1024
TooSmall(file_size) == file_size < 1024

\* duration_opt: the parsed duration if it is positive and under an hour
DurationOpt(chunk) ==
    IF chunk.duration # <<>> /\ chunk.duration[1] > 0 /\ chunk.duration[1] < 3600
    THEN chunk.duration ELSE <<>>

\* the body of the validation loop for one chunk: which counter it raises
\* ("existing" also appends the path to the concat list)
ValidateChunk(chunk) ==
    IF chunk.exists
    THEN IF TooSmall(chunk.file_size) THEN "invalid"
         ELSE IF /\ chunk.has_stream
                 /\ DurationOpt(chunk) # <<>>
                 /\ chunk.codec_name \in {"h264", "hevc"}
                 /\ chunk.readable
              THEN "existing" ELSE "invalid"
    ELSE "missing"

\* for (idx, chunk) in chunks.iter().enumerate(): the concat list and the
\* three counters after the first n chunks
RECURSIVE ValidateChunks(_, _)
ValidateChunks(chunks, n) ==
    IF n = 0
    THEN [concat_content |-> <<>>, existing_chunks |-> 0, missing_chunks |-> 0,
          invalid_chunks |-> 0]
    ELSE LET acc == ValidateChunks(chunks, n - 1)
             verdict == ValidateChunk(chunks[n])
         IN  [concat_content |->
                  IF verdict = "existing" THEN Append(acc.concat_content, chunks[n].file_path)
                  ELSE acc.concat_content,
              existing_chunks |-> acc.existing_chunks + (IF verdict = "existing" THEN 1 ELSE 0),
              missing_chunks |-> acc.missing_chunks + (IF verdict = "missing" THEN 1 ELSE 0),
              invalid_chunks |-> acc.invalid_chunks + (IF verdict = "invalid" THEN 1 ELSE 0)]

\* chunks.iter().find_map(|chunk| chunk.fps).unwrap_or(30)
RepresentativeFps(chunks) ==
    LET with_fps == {i \in 1..Len(chunks) : chunks[i].fps # <<>>}
    IN  IF with_fps = {} THEN 30
        ELSE chunks[CHOOSE i \in with_fps : \A j \in with_fps : i <= j].fps[1]

\* the HashSet of (w, h) over the frame rows that have both
Resolutions(frame_rows) ==
    {<<frame_rows[i].display_width[1], frame_rows[i].display_height[1]>> :
        i \in {j \in 1..Len(frame_rows) : /\ frame_rows[j].display_width # <<>>
                                          /\ frame_rows[j].display_height # <<>>}}

\* a plausible slip: any known resolution asks for the re-encode
NeedsNormalizationAlways(resolutions) == Cardinality(resolutions) > 0

\* let needs_normalization = resolutions.len() > 1
NeedsNormalization(resolutions) == Cardinality(resolutions) > 1

\* the greatest of a set of naturals, 0 for the empty set: fold with max from 0
MaxOf(S) == IF S = {} THEN 0 ELSE CHOOSE m \in S : \A x \in S : x <= m

\* resolutions.iter().fold((0, 0), |(max_w, max_h), &(w, h)| (max_w.max(w), max_h.max(h)))
MaxDimensions(resolutions) ==
    <<MaxOf({r[1] : r \in resolutions}), MaxOf({r[2] : r \in resolutions})>>

\* the arguments after "-i concat_list.txt": vf holds the scale-and-pad size,
\* r the -r value; <<>> where the flag is not given
FfmpegArgs(resolutions, rate) ==
    IF NeedsNormalization(resolutions)
    THEN [codec |-> "libx264", vf |-> MaxDimensions(resolutions), r |-> <<rate>>,
          fps_mode |-> "cfr"]
    ELSE [codec |-> "copy", vf |-> <<>>, r |-> <<>>, fps_mode |-> "none"]

\* final.mp4 is <<>> when absent, else <<[by, file_size]>>; each manifest is
\* "absent", or names who wrote it: "earlier" (an earlier run of the command)
\* or "this"
NoOutputs == [final |-> <<>>, metadata |-> "absent", frames |-> "absent"]

\* what an earlier run of the command can have left: nothing, everything, or
\* what it had written when it failed
EarlierOutputs ==
    { NoOutputs,
      [final |-> <<[by |-> "earlier", file_size |-> 4096]>>, metadata |-> "absent",
       frames |-> "absent"],
      [final |-> <<[by |-> "earlier", file_size |-> 4096]>>, metadata |-> "earlier",
       frames |-> "absent"],
      [final |-> <<[by |-> "earlier", file_size |-> 4096]>>, metadata |-> "earlier",
       frames |-> "earlier"] }

\* a plausible slip: only the video of the previous attempt is removed
CleanFinalOnly(outs) == [outs EXCEPT !.final = <<>>]

\* "Clean up any existing output files from previous failed attempts"
CleanOutputs(outs) == NoOutputs

\* a plausible slip: only an empty output counts as corrupted
OutputEmpty(file_size) == file_size = 0

\* the second if file_size < 1024, on the output of ffmpeg
OutputTooSmall(file_size) == file_size < 1024

\* what the machine does to one call of concatenate_chunks_impl: tools_ok,
\* FFmpeg, the home directory and the catalog are there; write_ok,
\* concat_list.txt could be written; exit_ok, ffmpeg ran and exited with
\* success; left, the size of the file ffmpeg left at the output path (<<>>
\* for none); sessions_ok, metadata_ok, frames_ok, the session query and the
\* two writes of the manifests
ConcatEnv(tools_ok, write_ok, exit_ok, left, sessions_ok, metadata_ok, frames_ok) ==
    [tools_ok |-> tools_ok, write_ok |-> write_ok, exit_ok |-> exit_ok, left |-> left,
     sessions_ok |-> sessions_ok, metadata_ok |-> metadata_ok, frames_ok |-> frames_ok]

\* one environment for each way the call can end
ConcatEnvs ==
    { ConcatEnv(FALSE, TRUE, TRUE, <<4096>>, TRUE, TRUE, TRUE),
      ConcatEnv(TRUE, FALSE, TRUE, <<4096>>, TRUE, TRUE, TRUE),
      ConcatEnv(TRUE, TRUE, FALSE, <<>>, TRUE, TRUE, TRUE),
      ConcatEnv(TRUE, TRUE, FALSE, <<512>>, TRUE, TRUE, TRUE),
      ConcatEnv(TRUE, TRUE, TRUE, <<>>, TRUE, TRUE, TRUE),
      ConcatEnv(TRUE, TRUE, TRUE, <<0>>, TRUE, TRUE, TRUE),
      ConcatEnv(TRUE, TRUE, TRUE, <<1023>>, TRUE, TRUE, TRUE),
      ConcatEnv(TRUE, TRUE, TRUE, <<1024>>, TRUE, TRUE, TRUE),
      ConcatEnv(TRUE, TRUE, TRUE, <<4096>>, FALSE, TRUE, TRUE),
      ConcatEnv(TRUE, TRUE, TRUE, <<4096>>, TRUE, FALSE, TRUE),
      ConcatEnv(TRUE, TRUE, TRUE, <<4096>>, TRUE, TRUE, FALSE) }

\* what metadata.json is written with: "fps" and "quality" are the locals
\* `let fps = 30` and `let quality = 8` set just before the statistics
MetadataJson(chunks) == [video_fps |-> 30, video_quality |-> 8, chunks_total |-> Len(chunks)]

\* concatenate_chunks_impl on the output files outs: the record of the run,
\* the stage it ended in, and the output files afterwards
ConcatenateChunksImpl(chunks, frame_rows, outs, env) ==
    LET checked == ValidateChunks(chunks, Len(chunks))
        args == FfmpegArgs(Resolutions(frame_rows), RepresentativeFps(chunks))
        Run(result, validated, invoked, stage) ==
            [result |-> result, validated |-> validated, invoked |-> invoked,
             checked |-> IF validated THEN <<checked>> ELSE <<>>,
             ffmpeg_args |-> IF invoked THEN <<args>> ELSE <<>>,
             metadata |-> IF stage \in {"frames", "done"} THEN <<MetadataJson(chunks)>>
                          ELSE <<>>]
        End(result, validated, invoked, stage, after) ==
            [run |-> Run(result, validated, invoked, stage), stage |-> stage,
             outputs |-> after,
             left |-> IF invoked THEN env.left ELSE <<>>]
        cleaned == CleanOutputs(outs)
        written == [cleaned EXCEPT
                       !.final = IF env.left = <<>> THEN <<>>
                                 ELSE <<[by |-> "this", file_size |-> env.left[1]]>>]
    IN  IF ~env.tools_ok THEN End("ConfigError", FALSE, FALSE, "tools", outs)
        ELSE IF chunks = <<>> THEN End("InvalidParameter", FALSE, FALSE, "chunks", outs)
        ELSE IF checked.existing_chunks = 0
        THEN End("InvalidParameter", TRUE, FALSE, "validation", outs)
        ELSE IF ~env.write_ok THEN End("EncodingError", TRUE, FALSE, "list", outs)
        ELSE IF ~env.exit_ok THEN End("EncodingError", TRUE, TRUE, "ffmpeg", written)
        ELSE IF env.left = <<>> THEN End("EncodingError", TRUE, TRUE, "output", written)
        ELSE IF OutputTooSmall(env.left[1])
        THEN End("EncodingError", TRUE, TRUE, "output", cleaned)
        ELSE IF ~env.sessions_ok THEN End("DatabaseError", TRUE, TRUE, "sessions", written)
        ELSE IF ~env.metadata_ok THEN End("EncodingError", TRUE, TRUE, "metadata", written)
        ELSE IF ~env.frames_ok
        THEN End("EncodingError", TRUE, TRUE, "frames", [written EXCEPT !.metadata = "this"])
        ELSE End("ok", TRUE, TRUE, "done",
                 [written EXCEPT !.metadata = "this", !.frames = "this"])

\* a plausible slip: the exponent is the attempt itself
ConcatWaitSecsLate(n) == 2 ^ n

\* let wait_secs = 2u64.pow(attempt - 1)
ConcatWaitSecs(n) == 2 ^ (n - 1)

\* if attempt > 1 { ... sleep(wait_secs) }
ConcatRetryWait ==
    /\ concat_pc = "wait"
    /\ concat_sleeps' = Append(concat_sleeps, ConcatWaitSecs(concat_attempt))
    /\ concat_pc' = "attempt"
    /\ UNCHANGED <<concat_chunks, concat_frames, concat_attempt, concat_runs, concat_result,
                   prior_outputs, concat_outputs, concat_last>>

\* the rest of one iteration of for attempt in 1..=MAX_RETRIES: the call of
\* concatenate_chunks_impl and the match on its result
ConcatAttempt ==
    /\ concat_pc = "attempt"
    /\ \E env \in ConcatEnvs \cup {ConcatEnv(TRUE, TRUE, TRUE, <<4096>>, TRUE, TRUE, TRUE)} :
          LET end == ConcatenateChunksImpl(concat_chunks, concat_frames, concat_outputs, env)
              run == end.run
          IN  /\ concat_runs' = Append(concat_runs, run)
              /\ concat_outputs' = end.outputs
              /\ concat_last' = [stage |-> end.stage, left |-> end.left]
              /\ IF run.result = "ok"
                 THEN /\ concat_result' = "ok"
                      /\ concat_pc' = "done"
                      /\ UNCHANGED concat_attempt
                 ELSE IF concat_attempt < MAX_RETRIES
                 THEN /\ concat_attempt' = concat_attempt + 1
                      /\ concat_pc' = "wait"
                      /\ UNCHANGED concat_result
                 ELSE /\ concat_result' = run.result
                      /\ concat_pc' = "done"
                      /\ UNCHANGED concat_attempt
    /\ UNCHANGED <<concat_chunks, concat_frames, concat_sleeps, prior_outputs>>

\* the concat command is not running
ConcatAtRest ==
    /\ concat_chunks = <<>>
    /\ concat_frames = <<>>
    /\ concat_pc = "idle"
    /\ concat_attempt = 1
    /\ concat_sleeps = <<>>
    /\ concat_runs = <<>>
    /\ concat_result = "none"
    /\ prior_outputs = NoOutputs
    /\ concat_outputs = NoOutputs
    /\ concat_last = [stage |-> "none", left |-> <<>>]

\* the record command is not running
RecordAtRest ==
    /\ record_args = [fps |-> 30, recording_type |-> "always_on", task_id |-> "none",
                      ffmpeg |-> "ok"]
    /\ record_pc = "idle"
    /\ record_result = "none"
    /\ created = {}

\* ---- chunk files: names from the local time, sequential runs ----

\* now.format("%Y-%m-%d_%H-%M-%S"): the local time cut to whole seconds
\* (the path is base_output_dir joined with this name and ".mp4")
ChunkFilename(now) == now \div TicksPerSecond

\* ---- chunks_for_task and frames_for_task: ORDER BY created_at ----

\* WHERE task_id = ?1 on video_chunks: the ids of the task's chunk rows
TaskChunkIds(task) == {c \in 1..Len(video_chunks) : video_chunks[c].task_id = task}

\* JOIN video_chunks vc ON f.video_chunk_id = vc.id WHERE vc.task_id = ?1
TaskFrameIds(task) ==
    {f \in 1..Len(frames) : frames[f].video_chunk_id \in TaskChunkIds(task)}

\* get_chunks_by_task_id, ORDER BY created_at ASC: row a stands before row b in
\* every result of the query (rows with equal keys come in any order)
ChunkSortsBefore(a, b) == created_at[a] < created_at[b]

\* get_frames_by_task_id, ORDER BY vc.created_at ASC, f.offset_index ASC
FrameSortsBefore(f, g) ==
    LET cf == created_at[frames[f].video_chunk_id]
        cg == created_at[frames[g].video_chunk_id]
    IN  \/ cf < cg
        \/ cf = cg /\ frames[f].offset_index < frames[g].offset_index

\* chunk a was recorded before chunk b: the ids are handed out in that order
ChunkRecordedBefore(a, b) == a < b

\* chunk by chunk in recording order, by offset_index inside a chunk
FrameRecordedBefore(f, g) ==
    \/ ChunkRecordedBefore(frames[f].video_chunk_id, frames[g].video_chunk_id)
    \/ /\ frames[f].video_chunk_id = frames[g].video_chunk_id
       /\ frames[f].offset_index < frames[g].offset_index

\* the time one turn of the producer's loop takes when a frame was sent:
\* frame_duration = 1_000_000 / fps microseconds, slept out at the loop's end
FrameTicks == TicksPerSecond \div fps

\* created_at TIMESTAMP DEFAULT CURRENT_TIMESTAMP: the time of the INSERT, which
\* SQLite gives in whole seconds
CurrentTimestamp(now) == now \div TicksPerSecond

\* the created_at column after a call of insert_video_chunk that took the
\* table from `before` to `after`
StampInserted(stamps, before, after, now) ==
    IF Len(after) > Len(before) THEN Append(stamps, CurrentTimestamp(now)) ELSE stamps

\* time passes
LocalClockTick ==
    /\ local_time < MaxLocalTime
    /\ local_time' = local_time + 1
    /\ UNCHANGED <<opened_files, run_no, created_at>>

\* the producer's turn with a frame: send, then sleep to the frame interval
ProducerSendPaced ==
    /\ ProducerSend
    /\ IF b_pc = "done"
       THEN UNCHANGED local_time
       ELSE /\ local_time + FrameTicks <= MaxLocalTime
            /\ local_time' = local_time + FrameTicks
    /\ UNCHANGED <<opened_files, run_no, created_at>>

\* process_frames_chunked, before the loop: the first chunk's file is named
\* after the local time and opened (ffmpeg::format::output creates or
\* truncates the file at that path)
EncoderStartNamed ==
    /\ EncoderStart
    /\ opened_files' = Append(opened_files,
                              [path |-> ChunkFilename(local_time), run |-> run_no])
    /\ created_at' = StampInserted(created_at, video_chunks, video_chunks', local_time)
    /\ UNCHANGED <<local_time, run_no>>

\* a frame in the loop: at a rollover the next chunk's file is named and opened
EncoderFrameNamed ==
    /\ EncoderFrame
    /\ opened_files' = IF RolloverDue(frames_in_current_chunk)
                       THEN Append(opened_files,
                                   [path |-> ChunkFilename(local_time), run |-> run_no])
                       ELSE opened_files
    /\ created_at' = StampInserted(created_at, video_chunks, video_chunks', local_time)
    /\ UNCHANGED <<local_time, run_no>>

\* the record command has returned and is started again with the same task id
\* and output directory: a new process, the catalog file and the chunk files
\* of the earlier run stay
NextRun ==
    /\ main_pc = "done"
    /\ run_no < MaxRuns
    /\ run_no' = run_no + 1
    /\ db_failures' = 0
    /\ p_pc' = "check" /\ frame_count' = 0 /\ running' = TRUE
    /\ std_chan' = <<>> /\ frame_ch' = <<>> /\ b_pc' = "recv" /\ b_frame' = 0
    /\ e_pc' = "init" /\ chunk_index' = 0 /\ frames_in_current_chunk' = 0
    /\ current_encoder' = NewEncoder(0) /\ chunk_outputs' = <<>> /\ submitted' = <<>>
    /\ shutdown_tx' = TRUE /\ shutdown_sent' = FALSE
    /\ ctrlc_pc' = "idle" /\ sigterm_pc' = "wait" /\ end_thread' = "none"
    /\ main_pc' = "join" /\ session_ended_at' = "null"
    /\ open_chunk' = [open_chunk EXCEPT ![Me] = 0]
    /\ UNCHANGED <<config_vars, video_chunks, frames, rec_device, cat_pc, tx_chunk_id,
                   tx_offset, tx_stale, local_time, opened_files,
                   created_at>>

\* no recording has opened a chunk file
RunsAtRest ==
    /\ local_time = 0
    /\ opened_files = <<>>
    /\ run_no = 1
    /\ created_at = <<>>

\* ---- the life of a chunk: opened, written, finished or dropped ----

\* VideoEncoder::new_with_pts_offset returned Ok: a chunk file is open
OpenChunk(log) ==
    Append(log, [state |-> "opening", written |-> 0, late |-> 0, left_by |-> "none"])

\* finish() returned Ok: EOF sent, packets drained, trailer written
FinishChunk(log, how) ==
    [log EXCEPT ![Len(log)].state = "closed", ![Len(log)].left_by = how]

\* process_frames_chunked returns an error: current_encoder is dropped, its
\* file is closed as it is, without a trailer
DropChunk(log) ==
    [log EXCEPT ![Len(log)].state = "dropped", ![Len(log)].left_by = "error"]

\* current_encoder.encode_frame(frame) returned Ok: the frame went into the
\* chunk current_encoder writes
SubmitFrame(log) ==
    IF log[Len(log)].state \in {"opening", "running"}
    THEN [log EXCEPT ![Len(log)].state = "running", ![Len(log)].written = @ + 1]
    ELSE [log EXCEPT ![Len(log)].late = @ + 1]

\* a plausible slip: the next chunk's encoder is made first and the old one
\* finished afterwards
RolloverOpensFirst(log, finish_ok, open_ok) ==
    IF ~open_ok THEN DropChunk(log)
    ELSE IF ~finish_ok THEN OpenChunk(log)
    ELSE OpenChunk(FinishChunk(log, "rollover"))

\* the rollover: current_encoder.finish()?, then chunk_index += 1, the new
\* name, and current_encoder = VideoEncoder::new_with_pts_offset(...)?
Rollover(log, finish_ok, open_ok) ==
    IF ~finish_ok THEN DropChunk(log)
    ELSE IF ~open_ok THEN FinishChunk(log, "rollover")
    ELSE OpenChunk(FinishChunk(log, "rollover"))

\* before the loop: the first chunk is opened
ChunkStart ==
    /\ EncoderStart
    /\ chunk_log' = OpenChunk(chunk_log)
    /\ UNCHANGED <<fault_vars, append_log>>

\* before the loop: VideoEncoder::new_with_pts_offset(...)? returned an error
ChunkStartFails ==
    /\ e_pc = "init"
    /\ e_pc' = "done"
    /\ e_result' = "EncodingError"
    /\ frame_ch' = <<>>
    /\ UNCHANGED <<chunk_log, append_log, encoder_info, encoder_faults, recoveries,
                   chunk_index,
                   frames_in_current_chunk, current_encoder, chunk_outputs, submitted,
                   catalog_vars, db_failures, producer_vars, std_chan, b_pc, b_frame,
                   shutdown_vars, config_vars>>

\* what one call of db.insert_frame by the encoder met and did: it fails on
\* an error of the database (ok = FALSE) and when the device has no chunk row
\* (fetch_one finds no row); expect is the offset_index it has or would have
\* computed, appended the rows it added, pc where the encoder is afterwards
InsertFrameCall(frame, ok, chunks, before, after, pc) ==
    LET c == LatestChunkIdIn(chunks, rec_device[Me])
    IN  [frame |-> frame,
         failed |-> ~ok \/ c = 0,
         no_chunk |-> c = 0,
         chunk |-> c,
         expect |-> IF c = 0 THEN 0 ELSE NextOffsetIndexIn(before, c),
         appended |-> IF Len(after) >= Len(before) /\ SubSeq(after, 1, Len(before)) = before
                      THEN SubSeq(after, Len(before) + 1, Len(after))
                      ELSE <<[video_chunk_id |-> -1]>>,
         pc |-> pc]

\* a frame in the loop, every call returning Ok
ChunkFrame ==
    /\ \E chunk_ok, frame_ok \in BOOLEAN :
          /\ EncoderFrameWith(chunk_ok, frame_ok)
          /\ append_log' = Append(append_log,
                                  InsertFrameCall(Head(frame_ch), frame_ok, video_chunks',
                                                  frames, frames', e_pc'))
    /\ chunk_log' = SubmitFrame(IF RolloverDue(frames_in_current_chunk)
                                THEN Rollover(chunk_log, TRUE, TRUE)
                                ELSE chunk_log)
    /\ UNCHANGED fault_vars

\* a frame in the loop, and finish(), new_with_pts_offset or encode_frame
\* returns an error: the `?` leaves process_frames_chunked there
ChunkFrameFails ==
    /\ e_pc = "loop"
    /\ frame_ch # <<>>
    /\ \E finish_ok, open_ok, encode_ok, chunk_ok \in BOOLEAN :
          LET roll == RolloverDue(frames_in_current_chunk)
              opened == roll /\ finish_ok /\ open_ok
              log1 == IF roll THEN Rollover(chunk_log, finish_ok, open_ok) ELSE chunk_log
          IN  /\ ~(finish_ok /\ open_ok /\ encode_ok)
              /\ ~roll => (finish_ok /\ open_ok)
              /\ ~finish_ok => (open_ok /\ encode_ok)
              /\ ~open_ok => encode_ok
              /\ ~opened => chunk_ok
              /\ db_failures + Failed(chunk_ok) <= MaxDbFailures
              /\ db_failures' = db_failures + Failed(chunk_ok)
              /\ chunk_log' = IF finish_ok /\ open_ok THEN DropChunk(log1) ELSE log1
              /\ chunk_outputs' = IF roll /\ finish_ok
                                  THEN Append(chunk_outputs, Finish(current_encoder, frames))
                                  ELSE chunk_outputs
              /\ chunk_index' = IF roll /\ finish_ok THEN chunk_index + 1 ELSE chunk_index
              /\ video_chunks' = IF opened
                                 THEN OpenChunkRow(chunk_ok, video_chunks, chunk_index + 1)
                                 ELSE video_chunks
              /\ open_chunk' = IF opened
                               THEN [open_chunk EXCEPT
                                        ![Me] = OpenedChunkId(chunk_ok, video_chunks)]
                               ELSE open_chunk
              /\ current_encoder' = IF opened THEN NewEncoder(GetNextPts(current_encoder))
                                    ELSE current_encoder
              /\ frames_in_current_chunk' = IF opened THEN 0 ELSE frames_in_current_chunk
    /\ e_pc' = "done"
    /\ e_result' = "EncodingError"
    /\ frame_ch' = <<>>
    /\ submitted' = Append(submitted, Head(frame_ch))
    /\ UNCHANGED <<append_log, encoder_info, encoder_faults, recoveries, frames, rec_device,
                   cat_pc, tx_chunk_id, tx_offset, tx_stale, producer_vars, std_chan, b_pc,
                   b_frame, shutdown_vars, config_vars>>

\* rx.recv() returned None: the last chunk is finished
ChunkInputClosed ==
    /\ EncoderChannelClosed
    /\ chunk_log' = FinishChunk(chunk_log, "input_close")
    /\ UNCHANGED <<fault_vars, append_log>>

\* the shutdown branch of select!: the last chunk is finished
ChunkShutdown ==
    /\ EncoderShutdown
    /\ chunk_log' = FinishChunk(chunk_log, "shutdown")
    /\ UNCHANGED <<fault_vars, append_log>>

\* after the loop: current_encoder.finish()? returned an error
ChunkFinalFinishFails ==
    /\ e_pc = "loop"
    /\ shutdown_sent \/ (frame_ch = <<>> /\ b_pc = "done")
    /\ chunk_log' = DropChunk(chunk_log)
    /\ e_pc' = "done"
    /\ e_result' = "EncodingError"
    /\ frame_ch' = <<>>
    /\ UNCHANGED <<append_log, encoder_info, encoder_faults, recoveries, chunk_index,
                   frames_in_current_chunk, current_encoder, chunk_outputs, submitted,
                   catalog_vars, db_failures, producer_vars, std_chan, b_pc, b_frame,
                   shutdown_vars, config_vars>>

\* ---- the frame producer with a capturer that may have no frame ready ----

\* a plausible slip: after would-block the capturer is asked again at once
RetryCapture == "capture"

\* Err(WouldBlock): sleep 1 ms and `continue`, which goes to the loop's top
AfterWouldBlock == "check"

\* one more call of capturer.frame(), counted when the stop flag is flipped
Polled(log) == IF running THEN log ELSE [log EXCEPT !.polls = @ + 1]

\* loop top; `break` falls to Ok(())
CaptureCheck ==
    /\ ProducerCheck
    /\ capture_log' = IF p_pc' = "done" THEN [capture_log EXCEPT !.result = "Ok"]
                      ELSE capture_log

\* capturer.frame() returned a frame, which is sent; a failed send breaks
CaptureSend ==
    /\ ProducerSend
    /\ capture_log' =
           LET log == Polled(capture_log)
           IN  IF b_pc = "done"
               THEN [log EXCEPT !.failed_sends = @ + 1, !.result = "Ok"]
               ELSE IF running THEN [log EXCEPT !.sends = @ + 1]
               ELSE [log EXCEPT !.sends = @ + 1, !.sent = @ + 1]

\* a plausible slip: a turn without a frame counts toward the target
CountedWouldBlock(count) == count + 1

\* the would-block arm leaves frame_count alone
CountAfterWouldBlock(count) == count

\* capturer.frame() returned Err(WouldBlock)
CaptureWouldBlock ==
    /\ p_pc = "capture"
    /\ p_pc' = AfterWouldBlock
    /\ frame_count' = CountAfterWouldBlock(frame_count)
    /\ capture_log' = [Polled(capture_log) EXCEPT !.blocked = TRUE]
    /\ UNCHANGED <<bridge_vars, encoder_vars, shutdown_vars, config_vars,
                   catalog_vars, db_failures>>

\* capturer.frame() returned another error: return Err(CaptureError)
CaptureFails ==
    /\ p_pc = "capture"
    /\ p_pc' = "done"
    /\ capture_log' = [Polled(capture_log) EXCEPT !.result = "CaptureError"]
    /\ UNCHANGED <<frame_count, bridge_vars, encoder_vars, shutdown_vars, config_vars,
                   catalog_vars, db_failures>>

\* main from capture_handle.join() to the return of the record command:
\* `?` on the capture result returns its error at once; otherwise the bridge
\* and the encoder are awaited, `??` returns the encoder's error, and only
\* then is the session's end time written
MainReturns ==
    /\ main_pc = "join"
    /\ p_pc = "done"
    /\ IF capture_log.result = "CaptureError"
       THEN UNCHANGED session_ended_at
       ELSE /\ b_pc = "done" /\ e_pc = "done"
            /\ IF e_result = "none" /\ session_id # 0
               THEN EndRecordingSession("main")
               ELSE UNCHANGED session_ended_at
    /\ main_pc' = "done"
    /\ UNCHANGED <<running, shutdown_tx, shutdown_sent, ctrlc_pc, sigterm_pc, end_thread,
                   producer_vars, bridge_vars, encoder_vars, config_vars, catalog_vars,
                   db_failures>>

\* the producer has not been started
StopAtRest ==
    capture_log = [polls |-> 0, sent |-> 0, failed_sends |-> 0, result |-> "none",
                   sends |-> 0, blocked |-> FALSE]

\* no chunk has been opened
TraceAtRest == chunk_log = <<>> /\ append_log = <<>>

\* ---- Database::new: the schema is created or brought up to date ----

Openers == {"p1", "p2"}

MaxOpens == 2

\* the columns of CREATE TABLE frames before the display columns were added
BaseColumns == <<"id", "video_chunk_id", "offset_index", "timestamp", "device_name",
                 "is_keyframe", "pts", "dts">>

DisplayColumns == <<"display_index", "display_width", "display_height">>

\* DEFAULT 0 for display_index, no default for the other two
ColumnDefault(name) == IF name = "display_index" THEN "0" ELSE "NULL"

Elems(seq) == {seq[i] : i \in 1..Len(seq)}

\* a file sqlite has just created: no table, no index
FreshFile == [tables |-> {}, frames_columns |-> <<>>, indexes |-> {}]

\* the file as a version without the display columns left it
OlderFile ==
    [tables |-> {"video_chunks", "frames"}, frames_columns |-> BaseColumns,
     indexes |-> {"idx_frames_video_chunk_id", "idx_frames_keyframe"}]

\* the file as create_schema leaves it
CurrentFile == [OlderFile EXCEPT !.frames_columns = BaseColumns \o DisplayColumns]

\* a row of frames as a version with the columns `columns` wrote it
StoredRow(id, columns) ==
    [c \in Elems(columns) |-> IF c = "id" THEN (IF id = 1 THEN "1" ELSE "2") ELSE "v"]

\* CREATE TABLE IF NOT EXISTS video_chunks
CreateVideoChunks(file) == [file EXCEPT !.tables = @ \cup {"video_chunks"}]

\* CREATE TABLE IF NOT EXISTS frames, with the display columns
CreateFrames(file) ==
    IF "frames" \in file.tables THEN file
    ELSE [file EXCEPT !.tables = @ \cup {"frames"},
                      !.frames_columns = BaseColumns \o DisplayColumns]

\* CREATE INDEX IF NOT EXISTS
CreateIndex(file, name) == [file EXCEPT !.indexes = @ \cup {name}]

\* ALTER TABLE frames ADD COLUMN: the column is appended and every stored
\* row reads its default there; "duplicate column name" if it exists
AddColumn(file, name) == [file EXCEPT !.frames_columns = Append(@, name)]

RowsWithColumn(rows, name) ==
    {[c \in DOMAIN r \cup {name} |-> IF c = name THEN ColumnDefault(name) ELSE r[c]] :
        r \in rows}

\* if !column_names.contains(name): the check against what the PRAGMA returned
AddsColumn(names, name) == name \notin names

\* the statement after `at` in create_schema
NextStatement(at) ==
    CASE at = "create_video_chunks" -> "create_frames"
      [] at = "create_frames" -> "create_index_chunk"
      [] at = "create_index_chunk" -> "create_index_keyframe"
      [] at = "create_index_keyframe" -> "table_info"
      [] at = "table_info" -> "display_index"
      [] at = "display_index" -> "display_width"
      [] at = "display_width" -> "display_height"
      [] at = "display_height" -> "done"

\* Database::new is called: the pool connects (mode=rwc creates the file)
OpenBegin(p) ==
    /\ opener_pc[p] = "done"
    /\ opens[p] < MaxOpens
    /\ opens' = [opens EXCEPT ![p] = @ + 1]
    /\ opener_pc' = [opener_pc EXCEPT ![p] = "create_video_chunks"]
    /\ open_result' = [open_result EXCEPT ![p] = "none"]
    /\ column_names' = [column_names EXCEPT ![p] = {}]
    /\ UNCHANGED <<db_file, db_rows>>

\* one of the four CREATE ... IF NOT EXISTS statements
OpenCreate(p) ==
    /\ opener_pc[p] \in {"create_video_chunks", "create_frames", "create_index_chunk",
                         "create_index_keyframe"}
    /\ db_file' =
           CASE opener_pc[p] = "create_video_chunks" -> CreateVideoChunks(db_file)
             [] opener_pc[p] = "create_frames" -> CreateFrames(db_file)
             [] opener_pc[p] = "create_index_chunk" ->
                    CreateIndex(db_file, "idx_frames_video_chunk_id")
             [] opener_pc[p] = "create_index_keyframe" ->
                    CreateIndex(db_file, "idx_frames_keyframe")
    /\ opener_pc' = [opener_pc EXCEPT ![p] = NextStatement(@)]
    /\ UNCHANGED <<db_rows, column_names, open_result, opens>>

\* PRAGMA table_info(frames)
OpenTableInfo(p) ==
    /\ opener_pc[p] = "table_info"
    /\ column_names' = [column_names EXCEPT ![p] = Elems(db_file.frames_columns)]
    /\ opener_pc' = [opener_pc EXCEPT ![p] = NextStatement(@)]
    /\ UNCHANGED <<db_file, db_rows, open_result, opens>>

\* one of the three guarded ALTER TABLE statements; the last is followed by Ok(())
OpenAddColumn(p) ==
    /\ opener_pc[p] \in Elems(DisplayColumns)
    /\ LET name == opener_pc[p]
           last == NextStatement(name) = "done"
       IN  IF ~AddsColumn(column_names[p], name)
           THEN /\ opener_pc' = [opener_pc EXCEPT ![p] = NextStatement(name)]
                /\ open_result' = [open_result EXCEPT ![p] = IF last THEN "Ok" ELSE @]
                /\ UNCHANGED <<db_file, db_rows>>
           ELSE IF name \in Elems(db_file.frames_columns)
           THEN /\ opener_pc' = [opener_pc EXCEPT ![p] = "done"]
                /\ open_result' = [open_result EXCEPT ![p] = "duplicate column name"]
                /\ UNCHANGED <<db_file, db_rows>>
           ELSE /\ db_file' = AddColumn(db_file, name)
                /\ db_rows' = RowsWithColumn(db_rows, name)
                /\ opener_pc' = [opener_pc EXCEPT ![p] = NextStatement(name)]
                /\ open_result' = [open_result EXCEPT ![p] = IF last THEN "Ok" ELSE @]
    /\ UNCHANGED <<column_names, opens>>

\* the process is killed in the middle of create_schema
OpenKilled(p) ==
    /\ opener_pc[p] # "done"
    /\ opener_pc' = [opener_pc EXCEPT ![p] = "done"]
    /\ open_result' = [open_result EXCEPT ![p] = "killed"]
    /\ UNCHANGED <<db_file, db_rows, column_names, opens>>

\* no process has opened the catalog
OpenersAtRest ==
    /\ opener_pc = [p \in Openers |-> "done"]
    /\ column_names = [p \in Openers |-> {}]
    /\ open_result = [p \in Openers |-> "none"]
    /\ opens = [p \in Openers |-> 0]

\* no catalog file
OpenAtRest == db_file = FreshFile /\ db_rows = {} /\ OpenersAtRest

\* ---- quality_to_crf ----

\* u8
Qualities == 0..255

\* the builds and which encoder each has: encoder_subprocess is compiled for
\* macOS only
Builds ==
    {[os |-> "windows", backend |-> "library"], [os |-> "linux", backend |-> "library"],
     [os |-> "macos", backend |-> "library"], [os |-> "macos", backend |-> "subprocess"]}

\* Ord::clamp(x, lo, hi)
Clamp(x, lo, hi) == IF x < lo THEN lo ELSE IF x > hi THEN hi ELSE x

\* one mapping on every platform
MappedEverywhere(os, q) == 42 - q * 3

\* `mapped`: 30 - ((q * 22) / 10) under cfg(target_os = "windows"), 42 - q * 3
\* otherwise, in i32
Mapped(os, q) == IF os = "windows" THEN 30 - ((q * 22) \div 10) ELSE 42 - q * 3

\* VideoEncoder::quality_to_crf as built for `os`
QualityToCrf(os, qual) ==
    LET q == Clamp(qual, 1, 10)
        mapped == Mapped(os, q)
    IN  IF os = "windows" THEN Clamp(mapped, 8, 28) ELSE Clamp(mapped, 12, 35)

\* encoder_subprocess::quality_to_crf
SubprocessQualityToCrf(qual) == Clamp(42 - Clamp(qual, 1, 10) * 3, 12, 35)

\* the encoder is configured for libx264: quality_to_crf is called
CallQualityToCrf ==
    /\ crf = -1
    /\ crf' = IF crf_backend = "library" THEN QualityToCrf(target_os, quality)
              ELSE SubprocessQualityToCrf(quality)
    /\ UNCHANGED <<target_os, crf_backend, quality>>

\* the next encoder is configured, with another quality
CallAgain ==
    /\ crf # -1
    /\ crf' = -1
    /\ quality' \in {0, 1, 5, 10, 255} \ {quality}
    /\ UNCHANGED <<target_os, crf_backend>>

\* no encoder has been configured
QualityAtRest ==
    /\ target_os = "linux" /\ crf_backend = "library" /\ quality = 0 /\ crf = -1

\* ---- signals, as often as they come ----

MaxCtrlC == 2

\* how often tx.send(()) has run after a handler's `if let Some(tx) = ...`
\* on an Option that held the sender (had) or was empty
SendsAfter(sends, had) == IF had THEN sends + 1 ELSE sends

\* the thread of the ctrlc crate waits for the next Ctrl+C once the handler
\* has returned: the handler runs once per signal, one run after the other
CtrlCAgain ==
    /\ main_pc # "done"
    /\ ctrlc_pc = "done"
    /\ ctrlc_count < MaxCtrlC
    /\ ctrlc_pc' = "idle"
    /\ UNCHANGED <<signal_vars, catalog_vars, db_failures, config_vars, producer_vars,
                   bridge_vars, encoder_vars, running, shutdown_tx, shutdown_sent,
                   sigterm_pc, end_thread, main_pc, session_ended_at>>

\* the handler is entered
CtrlCReceivedCounted ==
    /\ CtrlCReceived
    /\ ctrlc_count' = ctrlc_count + 1
    /\ UNCHANGED shutdown_sends

CtrlCSignalCounted ==
    /\ CtrlCSignal
    /\ shutdown_sends' = SendsAfter(shutdown_sends, shutdown_tx)
    /\ UNCHANGED ctrlc_count

SigtermSignalCounted ==
    /\ SigtermSignal
    /\ shutdown_sends' = SendsAfter(shutdown_sends, shutdown_tx)
    /\ UNCHANGED ctrlc_count

\* no signal has arrived
SignalsAtRest == shutdown_sends = 0 /\ ctrlc_count = 0

TailAtRest == OpenAtRest /\ QualityAtRest /\ SignalsAtRest

AuxAtRest == AdminAtRest /\ RunsAtRest /\ TraceAtRest /\ StopAtRest /\ TailAtRest

CommandsAtRest == RecordAtRest /\ ConcatAtRest /\ AuxAtRest

\* ---- recording sessions ----

Tasks == {"task_1", "task_2"}

\* who ends a session: the Ctrl+C handler's thread, the SIGTERM task, main
SessionEnders == {"ctrlc", "sigterm", "main"}

\* seconds that pass between two readings of chrono::Utc::now()
Elapsed == {1, 2}

\* session_start_time = Utc::now(); db.create_recording_session(tid, device,
\* session_start_time): a new row with no end time
CreateRecordingSession ==
    /\ Len(sessions) < MaxSessions
    /\ \E task \in Tasks, d \in Elapsed :
          /\ wall_clock + d <= MaxWallClock
          /\ wall_clock' = wall_clock + d
          /\ sessions' = Append(sessions, [task_id |-> task, started_at |-> wall_clock + d,
                                           ended_at |-> 0])
    /\ UNCHANGED <<pending_ends, catalog_vars, recording_vars, switch_vars, init_vars, fault_vars,
                   command_vars>>

\* session_end_time = chrono::Utc::now() in a handler or at the end of main,
\* for the session the process created; each of the three does it at most once
TakeSessionEndTime ==
    /\ \E id \in 1..Len(sessions), by \in SessionEnders, d \in Elapsed :
          /\ \A e \in pending_ends : ~(e.id = id /\ e.by = by)
          /\ wall_clock + d <= MaxWallClock
          /\ wall_clock' = wall_clock + d
          /\ pending_ends' = pending_ends \cup
                 {[id |-> id, by |-> by, at |-> wall_clock + d, written |-> FALSE]}
    /\ UNCHANGED <<sessions, catalog_vars, recording_vars, switch_vars, init_vars, fault_vars,
                   command_vars>>

\* db.end_recording_session(sid, session_end_time): sets the end timestamp
WriteSessionEndTime ==
    /\ \E e \in pending_ends :
          /\ ~e.written
          /\ sessions' = [sessions EXCEPT ![e.id].ended_at = e.at]
          /\ pending_ends' = (pending_ends \ {e}) \cup {[e EXCEPT !.written = TRUE]}
    /\ UNCHANGED <<wall_clock, catalog_vars, recording_vars, switch_vars, init_vars, fault_vars,
                   command_vars>>

\* db.get_sessions_for_task(task_id)
GetSessionsForTask(task) == SelectSeq(sessions, LAMBDA s : s.task_id = task)

\* a plausible slip: a session without an end time is treated like the others
EverySessionComplete(s) == TRUE

\* if let Some(ended_at) = session.ended_at
IsComplete(s) == s.ended_at # 0

RECURSIVE TotalDuration(_)
\* inspect_sessions: total_duration += (ended_at - started_at).num_seconds()
\* for every listed session that has an end time (whole seconds here)
TotalDuration(listed) ==
    IF listed = <<>> THEN 0
    ELSE (IF IsComplete(Head(listed))
          THEN Head(listed).ended_at - Head(listed).started_at ELSE 0)
         + TotalDuration(Tail(listed))

RECURSIVE SumOfDurations(_)
SumOfDurations(ids) ==
    IF ids = {} THEN 0
    ELSE LET i == CHOOSE j \in ids : TRUE
         IN  (sessions[i].ended_at - sessions[i].started_at) + SumOfDurations(ids \ {i})

\* db.get_total_recording_time(task_id): the sum of ended_at - started_at over
\* the task's rows whose ended_at is not NULL
GetTotalRecordingTime(task) ==
    SumOfDurations({i \in 1..Len(sessions) :
                        sessions[i].task_id = task /\ sessions[i].ended_at # 0})

\* no session has been created
SessionsAtRest ==
    /\ sessions = <<>>
    /\ wall_clock = 0
    /\ pending_ends = {}

LaterAtRest == SessionsAtRest /\ EncoderInitAtRest /\ FaultsAtRest /\ CommandsAtRest

\* ---- specifications ----

\* the two encoders with the encode_frame / get_next_pts / finish interface:
\* VideoEncoder (whose codec may hold frames back) and SubprocessEncoder
EncoderBackends ==
    {[kind |-> "subprocess", delay |-> 0]}
        \cup {[kind |-> "library", delay |-> d] : d \in 0..MaxEncoderDelay}

\* the state of one recorder process when the tasks have been spawned
RecordingStarted ==
    /\ db_failures = 0
    /\ p_pc = "check" /\ frame_count = 0 /\ running = TRUE
    /\ std_chan = <<>> /\ frame_ch = <<>> /\ b_pc = "recv" /\ b_frame = 0
    /\ e_pc = "init" /\ chunk_index = 0 /\ frames_in_current_chunk = 0
    /\ current_encoder = NewEncoder(0) /\ chunk_outputs = <<>> /\ submitted = <<>>
    /\ shutdown_tx = TRUE /\ shutdown_sent = FALSE
    /\ ctrlc_pc = "idle" /\ sigterm_pc = "wait" /\ end_thread = "none"
    /\ main_pc = "join" /\ session_ended_at = "null"

\* no record command is running
RecordingAtRest ==
    /\ fps = 1 /\ chunk_duration_secs = 1 /\ duration = 0 /\ session_id = 0
    /\ encoder_backend = [kind |-> "subprocess", delay |-> 0]
    /\ RecordingStarted

CatalogOpened ==
    /\ video_chunks = <<>>
    /\ frames = <<>>
    /\ cat_pc = [r \in Recorders |-> "start"]
    /\ tx_chunk_id = [r \in Recorders |-> 0]
    /\ tx_offset = [r \in Recorders |-> 0]
    /\ tx_stale = [r \in Recorders |-> FALSE]
    /\ open_chunk = [r \in Recorders |-> 0]

PipelineInit ==
    /\ fps \in FpsValues
    /\ chunk_duration_secs \in ChunkDurations
    /\ duration \in Durations
    /\ session_id \in {0, 1}
    /\ encoder_backend \in EncoderBackends
    /\ RecordingStarted
    /\ rec_device = [r \in Recorders |-> "hostA"]
    /\ CatalogOpened
    /\ SwitchAtRest
    /\ LaterAtRest

PipelineNext ==
    /\ \/ ProducerCheck
       \/ ProducerSend
       \/ BridgeRecv
       \/ BridgeRecvClosed
       \/ BridgeSend
       \/ EncoderStart
       \/ EncoderFrame
       \/ EncoderChannelClosed
       \/ EncoderShutdown
       \/ CtrlCReceived
       \/ EndSessionThread
       \/ CtrlCSignal
       \/ CtrlCStop
       \/ SigtermEndSession
       \/ SigtermSignal
       \/ SigtermStop
       \/ MainFinish
    /\ UNCHANGED <<switch_vars, later_vars>>

\* One recorder process: producer thread, bridge task, encoder task, handlers
SpecPipeline == PipelineInit /\ [][PipelineNext]_vars


CatalogInit ==
    \* the host names are interchangeable: r1 runs on hostA, r2 on either host
    /\ rec_device \in {d \in [Recorders -> Devices] : d["r1"] = "hostA"}
    /\ CatalogOpened
    /\ RecordingAtRest
    /\ SwitchAtRest
    /\ LaterAtRest

CatalogNext ==
    /\ \E r \in Recorders :
          \/ InsertVideoChunk(r)
          \/ InsertVideoChunkFails(r)
          \/ InsertFrameBegin(r)
          \/ InsertFrameOffset(r)
          \/ InsertFrameCommit(r)
          \/ InsertFrameBusy(r)
    /\ UNCHANGED <<recording_vars, switch_vars, later_vars>>

SwitchInit ==
    /\ \E interval \in CheckIntervals, initial_display \in Displays :
          /\ switch_detector = NewSwitchDetector(interval, initial_display, 0)
          /\ sw_return = [value |-> "none", from |-> initial_display]
    /\ sw_now = 0
    /\ checks = <<>>
    /\ rec_device = [r \in Recorders |-> "hostA"]
    /\ CatalogOpened
    /\ RecordingAtRest
    /\ LaterAtRest

SwitchNext ==
    /\ \/ CheckForSwitch
       \/ SwitchTick
    /\ UNCHANGED later_vars

\* The monitor switch policy under the multi-monitor capture loop
SpecSwitch == SwitchInit /\ [][SwitchNext]_vars

\* everything but the session rows is at rest
OnlySessions ==
    /\ rec_device = [r \in Recorders |-> "hostA"]
    /\ CatalogOpened
    /\ RecordingAtRest
    /\ SwitchAtRest

SessionsInit ==
    /\ SessionsAtRest
    /\ EncoderInitAtRest
    /\ FaultsAtRest
    /\ CommandsAtRest
    /\ OnlySessions

SessionsNext ==
    \/ CreateRecordingSession
    \/ TakeSessionEndTime
    \/ WriteSessionEndTime

\* Record commands opening and ending sessions of the catalog
SpecSessions == SessionsInit /\ [][SessionsNext]_vars

EncoderInitInit ==
    /\ available_encoders \in AvailableEncoderLists
    /\ init_pc = "start"
    /\ init_idx = 0
    /\ init_attempt = 0
    /\ init_log = <<>>
    /\ init_result = [status |-> "none", error |-> "none", selected |-> "none"]
    /\ SessionsAtRest
    /\ FaultsAtRest
    /\ CommandsAtRest
    /\ OnlySessions

EncoderInitNext ==
    \/ NewWithPtsOffsetBegin
    \/ InitAttempt

\* One call of VideoEncoder::new_with_pts_offset
SpecEncoderInit == EncoderInitInit /\ [][EncoderInitNext]_vars

RecoveryInit ==
    /\ fps = 1
    /\ chunk_duration_secs = 2
    /\ duration \in Durations
    /\ session_id = 0
    /\ encoder_backend = [kind |-> "library", delay |-> 0]
    /\ RecordingStarted
    /\ rec_device = [r \in Recorders |-> "hostA"]
    /\ CatalogOpened
    /\ SwitchAtRest
    /\ SessionsAtRest
    /\ available_encoders \in AvailableEncoderLists \ {<<>>}
    /\ init_pc = "start"
    /\ init_idx = 0
    /\ init_attempt = 0
    /\ init_log = <<>>
    /\ init_result = [status |-> "none", error |-> "none", selected |-> "none"]
    /\ FaultsAtRest
    /\ CommandsAtRest

RecoveryNext ==
    /\ \/ (ProducerCheck /\ UNCHANGED fault_vars)
       \/ (ProducerSend /\ UNCHANGED fault_vars)
       \/ (BridgeRecv /\ UNCHANGED fault_vars)
       \/ (BridgeRecvClosed /\ UNCHANGED fault_vars)
       \/ (BridgeSend /\ UNCHANGED fault_vars)
       \/ EncoderStartSelecting
       \/ EncoderFrameSound
       \/ EncoderFrameFaulty
       \/ (EncoderChannelClosed /\ UNCHANGED fault_vars)
       \/ (MainFinish /\ UNCHANGED fault_vars)
    /\ UNCHANGED <<switch_vars, session_vars, init_vars, command_vars>>

\* A live recording whose encoder may fail while a frame is encoded
SpecRecovery == RecoveryInit /\ [][RecoveryNext]_vars

RecordInit ==
    /\ RecordingAtRest
    /\ rec_device = [r \in Recorders |-> "hostA"]
    /\ CatalogOpened
    /\ SwitchAtRest
    /\ SessionsAtRest
    /\ EncoderInitAtRest
    /\ FaultsAtRest
    /\ record_args \in RecordArgs
    /\ record_pc = "start"
    /\ record_result = "none"
    /\ created = {}
    /\ ConcatAtRest
    /\ AuxAtRest

RecordNext ==
    /\ \/ RecordFindFfmpeg
       \/ RecordValidate
       \/ RecordCreateDirectories
       \/ RecordOpenCatalog
       \/ RecordCreateSession
       \/ RecordStartPipeline
    /\ UNCHANGED <<catalog_vars, recording_vars, switch_vars, session_vars, init_vars,
                   fault_vars, concat_vars, aux_vars>>

\* One run of the record command, up to the start of the pipeline
SpecRecord == RecordInit /\ [][RecordNext]_vars

\* the catalogue of a task with files of every kind and frames of one size, or
\* with sound files and frames of every size
ConcatInit ==
    /\ RecordingAtRest
    /\ rec_device = [r \in Recorders |-> "hostA"]
    /\ CatalogOpened
    /\ SwitchAtRest
    /\ SessionsAtRest
    /\ EncoderInitAtRest
    /\ FaultsAtRest
    /\ RecordAtRest
    /\ AuxAtRest
    /\ \/ /\ concat_chunks \in SeqUpTo(ConcatChunkRows, MaxConcatRows)
          /\ concat_frames = <<>>
          /\ prior_outputs = NoOutputs
       \/ /\ concat_chunks \in
                 SeqUpTo({c \in ConcatChunkRows : c.file_path \in {"good.mp4", "hevc.mp4"}}, 2)
          /\ concat_frames \in SeqUpTo(ConcatFrameRows, MaxConcatRows)
          /\ prior_outputs = NoOutputs
       \/ /\ concat_chunks \in
                 SeqUpTo({c \in ConcatChunkRows : c.file_path \in {"good.mp4", "small.mp4"}}, 1)
          /\ concat_frames = <<>>
          /\ prior_outputs \in EarlierOutputs
    /\ concat_outputs = prior_outputs
    /\ concat_last = [stage |-> "none", left |-> <<>>]
    /\ concat_pc = "attempt"
    /\ concat_attempt = 1
    /\ concat_sleeps = <<>>
    /\ concat_runs = <<>>
    /\ concat_result = "none"

ConcatNext ==
    /\ \/ ConcatRetryWait
       \/ ConcatAttempt
    /\ UNCHANGED <<catalog_vars, recording_vars, switch_vars, session_vars, init_vars,
                   fault_vars, record_vars, aux_vars>>

\* One run of the concat command for a task
SpecConcat == ConcatInit /\ [][ConcatNext]_vars

\* src/ neither sets PRAGMA foreign_keys nor pins the version of sqlx that
\* chooses its default: both settings are possible builds
DeleteInit ==
    /\ RecordingAtRest
    /\ rec_device = [r \in Recorders |-> "hostA"]
    /\ CatalogOpened
    /\ SwitchAtRest
    /\ SessionsAtRest
    /\ EncoderInitAtRest
    /\ FaultsAtRest
    /\ RecordAtRest
    /\ ConcatAtRest
    /\ foreign_keys \in BOOLEAN
    /\ chunk_table = {}
    /\ frame_table = {}
    /\ next_rowid = [chunks |-> 0, frames |-> 0]
    /\ RunsAtRest
    /\ TraceAtRest
    /\ StopAtRest
    /\ TailAtRest

DeleteNext ==
    /\ \/ AdminInsertVideoChunk
       \/ AdminInsertFrame
       \/ DeleteChunk
    /\ UNCHANGED <<catalog_vars, recording_vars, switch_vars, session_vars, init_vars,
                   fault_vars, record_vars, concat_vars, run_vars, trace_vars, stop_vars,
                   tail_vars>>

\* The catalog with chunks inserted, frames appended and chunks deleted
SpecDelete == DeleteInit /\ [][DeleteNext]_vars

RunsInit ==
    /\ fps = TicksPerSecond
    /\ chunk_duration_secs \in ChunkDurations
    /\ duration \in RunDurations
    /\ session_id = 0
    /\ encoder_backend = [kind |-> "subprocess", delay |-> 0]
    /\ RecordingStarted
    /\ rec_device = [r \in Recorders |-> "hostA"]
    /\ CatalogOpened
    /\ SwitchAtRest
    /\ SessionsAtRest
    /\ EncoderInitAtRest
    /\ FaultsAtRest
    /\ RecordAtRest
    /\ ConcatAtRest
    /\ AdminAtRest
    /\ RunsAtRest
    /\ TraceAtRest
    /\ StopAtRest
    /\ TailAtRest

RunsNext ==
    /\ \/ (ProducerCheck /\ UNCHANGED run_vars)
       \/ ProducerSendPaced
       \/ (BridgeRecv /\ UNCHANGED run_vars)
       \/ (BridgeRecvClosed /\ UNCHANGED run_vars)
       \/ (BridgeSend /\ UNCHANGED run_vars)
       \/ EncoderStartNamed
       \/ EncoderFrameNamed
       \/ (EncoderChannelClosed /\ UNCHANGED run_vars)
       \/ (EncoderShutdown /\ UNCHANGED run_vars)
       \/ (CtrlCReceived /\ UNCHANGED run_vars)
       \/ (CtrlCSignal /\ UNCHANGED run_vars)
       \/ (CtrlCStop /\ UNCHANGED run_vars)
       \/ (MainFinish /\ UNCHANGED run_vars)
       \/ (LocalClockTick /\ UNCHANGED <<catalog_vars, recording_vars>>)
       \/ NextRun
    /\ UNCHANGED <<switch_vars, session_vars, init_vars, fault_vars, record_vars,
                   concat_vars, admin_vars, trace_vars, stop_vars, tail_vars>>

\* Runs of the record command, one after the other, with one task id and one
\* output directory
SpecRuns == RunsInit /\ [][RunsNext]_vars

ChunksInit ==
    /\ fps \in FpsValues
    /\ chunk_duration_secs \in ChunkDurations
    /\ duration \in Durations
    /\ session_id = 0
    /\ encoder_backend \in EncoderBackends
    /\ RecordingStarted
    /\ rec_device = [r \in Recorders |-> "hostA"]
    /\ CatalogOpened
    /\ SwitchAtRest
    /\ SessionsAtRest
    /\ EncoderInitAtRest
    /\ FaultsAtRest
    /\ RecordAtRest
    /\ ConcatAtRest
    /\ AdminAtRest
    /\ RunsAtRest
    /\ TraceAtRest
    /\ StopAtRest
    /\ TailAtRest

ChunksNext ==
    /\ \/ (ProducerCheck /\ UNCHANGED <<fault_vars, trace_vars>>)
       \/ (ProducerSend /\ UNCHANGED <<fault_vars, trace_vars>>)
       \/ (BridgeRecv /\ UNCHANGED <<fault_vars, trace_vars>>)
       \/ (BridgeRecvClosed /\ UNCHANGED <<fault_vars, trace_vars>>)
       \/ (BridgeSend /\ UNCHANGED <<fault_vars, trace_vars>>)
       \/ ChunkStart
       \/ ChunkStartFails
       \/ ChunkFrame
       \/ ChunkFrameFails
       \/ ChunkInputClosed
       \/ ChunkShutdown
       \/ ChunkFinalFinishFails
       \/ (CtrlCReceived /\ UNCHANGED <<fault_vars, trace_vars>>)
       \/ (CtrlCSignal /\ UNCHANGED <<fault_vars, trace_vars>>)
       \/ (CtrlCStop /\ UNCHANGED <<fault_vars, trace_vars>>)
       \/ (MainFinish /\ UNCHANGED <<fault_vars, trace_vars>>)
    /\ UNCHANGED <<switch_vars, session_vars, init_vars, record_vars, concat_vars,
                   admin_vars, run_vars, stop_vars, tail_vars>>

\* One recording process whose encoder calls may return errors, with the life
\* of every chunk recorded
SpecChunks == ChunksInit /\ [][ChunksNext]_vars

StopInit ==
    /\ fps = 1
    /\ chunk_duration_secs = 1
    /\ duration \in Durations
    /\ session_id \in {0, 1}
    /\ encoder_backend = [kind |-> "subprocess", delay |-> 0]
    /\ RecordingStarted
    /\ rec_device = [r \in Recorders |-> "hostA"]
    /\ CatalogOpened
    /\ SwitchAtRest
    /\ LaterAtRest

StopNext ==
    /\ \/ CaptureCheck
       \/ CaptureSend
       \/ CaptureWouldBlock
       \/ CaptureFails
       \/ ((\/ BridgeRecv
            \/ BridgeRecvClosed
            \/ BridgeSend
            \/ EncoderStart
            \/ EncoderFrame
            \/ EncoderChannelClosed
            \/ EncoderShutdown
            \/ CtrlCReceived
            \/ EndSessionThread
            \/ CtrlCSignal
            \/ CtrlCStop
            \/ SigtermEndSession
            \/ SigtermSignal
            \/ SigtermStop
            \/ MainReturns)
           /\ UNCHANGED stop_vars)
    /\ UNCHANGED <<switch_vars, session_vars, init_vars, fault_vars, record_vars,
                   concat_vars, admin_vars, run_vars, trace_vars, tail_vars>>

\* a recording with --duration, nothing else given up to chance
BoundedInit ==
    /\ fps \in FpsValues
    /\ chunk_duration_secs \in ChunkDurations
    /\ duration \in Durations \ {0}
    /\ session_id \in {0, 1}
    /\ encoder_backend \in EncoderBackends
    /\ RecordingStarted
    /\ rec_device = [r \in Recorders |-> "hostA"]
    /\ CatalogOpened
    /\ SwitchAtRest
    /\ LaterAtRest

\* the capture thread's steps
ProducerStep ==
    /\ ProducerCheck \/ ProducerSend
    /\ UNCHANGED <<switch_vars, later_vars>>

\* the bridge task's steps
BridgeStep ==
    /\ BridgeRecv \/ BridgeRecvClosed \/ BridgeSend
    /\ UNCHANGED <<switch_vars, later_vars>>

\* the encoder task's steps when no catalog call fails and no signal comes
EncoderStep ==
    /\ \/ (EncoderStart /\ db_failures' = db_failures)
       \/ EncoderFrameWith(TRUE, TRUE)
       \/ EncoderChannelClosed
    /\ UNCHANGED <<switch_vars, later_vars>>

\* main joins the capture thread, awaits the tasks and returns
MainStep == MainFinish /\ UNCHANGED <<switch_vars, later_vars>>

BoundedNext ==
    \/ ProducerStep
    \/ BridgeStep
    \/ EncoderStep
    \/ MainStep

\* the capture thread is an OS thread, the bridge and the encoder are tokio
\* tasks and main awaits them: each takes its next step when it can
BoundedFairness ==
    /\ WF_vars(ProducerStep)
    /\ WF_vars(BridgeStep)
    /\ WF_vars(EncoderStep)
    /\ WF_vars(MainStep)

\* One bounded recording left alone: no signal, no capture, encoder or
\* catalog error, every thread and task scheduled again and again
SpecBounded == BoundedInit /\ [][BoundedNext]_vars /\ BoundedFairness

SignalsInit ==
    /\ fps = 1
    /\ chunk_duration_secs = 1
    /\ duration \in Durations
    /\ session_id \in {0, 1}
    /\ encoder_backend = [kind |-> "subprocess", delay |-> 0]
    /\ RecordingStarted
    /\ rec_device = [r \in Recorders |-> "hostA"]
    /\ CatalogOpened
    /\ SwitchAtRest
    /\ LaterAtRest

SignalsNext ==
    /\ \/ CtrlCReceivedCounted
       \/ CtrlCSignalCounted
       \/ SigtermSignalCounted
       \/ CtrlCAgain
       \/ ((\/ ProducerCheck
            \/ ProducerSend
            \/ BridgeRecv
            \/ BridgeRecvClosed
            \/ BridgeSend
            \/ EncoderStart
            \/ EncoderFrame
            \/ EncoderChannelClosed
            \/ EncoderShutdown
            \/ EndSessionThread
            \/ CtrlCStop
            \/ SigtermEndSession
            \/ SigtermStop
            \/ MainFinish)
           /\ UNCHANGED signal_vars)
    /\ UNCHANGED <<switch_vars, session_vars, init_vars, fault_vars, record_vars,
                   concat_vars, admin_vars, run_vars, trace_vars, stop_vars, open_vars,
                   quality_vars>>

\* One recording process that is sent Ctrl+C more than once, and SIGTERM
SpecSignals == SignalsInit /\ [][SignalsNext]_vars

QualityInit ==
    /\ \E b \in Builds : target_os = b.os /\ crf_backend = b.backend
    /\ quality \in Qualities
    /\ crf = -1
    /\ OpenAtRest
    /\ SignalsAtRest
    /\ fps = 1
    /\ chunk_duration_secs = 1
    /\ duration = 0
    /\ session_id = 0
    /\ encoder_backend = [kind |-> "subprocess", delay |-> 0]
    /\ RecordingStarted
    /\ rec_device = [r \in Recorders |-> "hostA"]
    /\ CatalogOpened
    /\ SwitchAtRest
    /\ SessionsAtRest
    /\ EncoderInitAtRest
    /\ FaultsAtRest
    /\ RecordAtRest
    /\ ConcatAtRest
    /\ AdminAtRest
    /\ RunsAtRest
    /\ TraceAtRest
    /\ StopAtRest

QualityNext ==
    /\ \/ CallQualityToCrf
       \/ CallAgain
    /\ UNCHANGED <<catalog_vars, recording_vars, switch_vars, session_vars, init_vars,
                   fault_vars, record_vars, concat_vars, admin_vars, run_vars, trace_vars,
                   stop_vars, open_vars, signal_vars>>

\* quality_to_crf on every build, for every u8
SpecQuality == QualityInit /\ [][QualityNext]_vars

\* a fresh file, a file of the current version or a file of a version without
\* the display columns, the latter two with a stored frame or without
OpenInit ==
    /\ \E file \in {FreshFile, OlderFile, CurrentFile}, stored \in 0..1 :
          /\ file = FreshFile => stored = 0
          /\ db_file = file
          /\ db_rows = {StoredRow(id, file.frames_columns) : id \in 1..stored}
    /\ OpenersAtRest
    /\ fps = 1
    /\ chunk_duration_secs = 1
    /\ duration = 0
    /\ session_id = 0
    /\ encoder_backend = [kind |-> "subprocess", delay |-> 0]
    /\ RecordingStarted
    /\ rec_device = [r \in Recorders |-> "hostA"]
    /\ CatalogOpened
    /\ SwitchAtRest
    /\ SessionsAtRest
    /\ EncoderInitAtRest
    /\ FaultsAtRest
    /\ RecordAtRest
    /\ ConcatAtRest
    /\ AdminAtRest
    /\ RunsAtRest
    /\ TraceAtRest
    /\ StopAtRest
    /\ QualityAtRest
    /\ SignalsAtRest

OpenNext ==
    /\ \E p \in Openers :
          \/ OpenBegin(p)
          \/ OpenCreate(p)
          \/ OpenTableInfo(p)
          \/ OpenAddColumn(p)
          \/ OpenKilled(p)
    /\ UNCHANGED <<catalog_vars, recording_vars, switch_vars, session_vars, init_vars,
                   fault_vars, record_vars, concat_vars, admin_vars, run_vars, trace_vars,
                   stop_vars, quality_vars, signal_vars>>

\* Processes that open one catalog file, each time and again
SpecOpen == OpenInit /\ [][OpenNext]_vars

\* One recording process whose capturer may have no frame ready or fail, up
\* to and past the flip of the stop flag
SpecStop == StopInit /\ [][StopNext]_vars

\* Two recorder processes working on one catalog file
SpecCatalog == CatalogInit /\ [][CatalogNext]_vars

----------------------------------------------------------------------------
(* Claims about the catalog *)

ChunkIds == 1..Len(video_chunks)

RowsOf(chunk_id) == {j \in 1..Len(frames) : frames[j].video_chunk_id = chunk_id}

\* C1: for every chunk row the offset_index values of its frame rows are
\* exactly 0..n-1, n the number of its frame rows: no duplicate and no gap,
\* also when insert_frame transactions of several connections interleave.
C1_OffsetsContiguous ==
    \A c \in ChunkIds :
        /\ OffsetsOf(c) = 0..(Cardinality(RowsOf(c)) - 1)
        /\ \A i, j \in RowsOf(c) : frames[i].offset_index = frames[j].offset_index => i = j

\* two transactions on the same chunk overlapped, one was refused, and the
\* chunk still received two frame rows
C1_Witness ==
    /\ \E c \in ChunkIds : Cardinality(RowsOf(c)) >= 2
    /\ \E r \in Recorders : cat_pc[r] = "tx_insert" /\ tx_stale[r]

\* C2: every frame row appended by a recorder references the chunk that this
\* recorder has open (the chunk whose file the frame was encoded into).
C2_FramesInOwnChunk ==
    \A j \in 1..Len(frames) :
        frames[j].enc_chunk # 0 => frames[j].video_chunk_id = frames[j].enc_chunk

-----------------------------------------------------------------------------
(* Claims about the recording pipeline *)

\* all three stages of the pipeline have ended
PipelineEnded == p_pc = "done" /\ b_pc = "done" /\ e_pc = "done"

\* C3: every frame the producer sent successfully is submitted to the
\* chunking encoder exactly once; when the pipeline has ended, the submitted
\* frames are the frames sent, none discarded, also after a shutdown request.
C3_NoFrameDiscarded ==
    PipelineEnded => submitted = [i \in 1..frame_count |-> i]

\* frames held between the producer and the encoder: queued by the producer,
\* in the bridge's hand, or queued for the encoder
HeldFrames == Len(std_chan) + (IF b_pc = "send" THEN 1 ELSE 0) + Len(frame_ch)

\* C4: the number of frames held between the producer and the chunking
\* encoder never exceeds the bridge capacity (the frame in the bridge's hand
\* is not even counted here).
C4_HeldWithinCapacity ==
    Len(std_chan) + Len(frame_ch) <= ChannelCapacity

\* C5: frames are submitted to the chunking encoder in the order the producer
\* sent them, each at most once: the i-th submitted frame is the i-th sent.
C5_SubmittedInOrder ==
    \A i \in 1..Len(submitted) : submitted[i] = i

\* frames are in flight behind an encoder that has taken three and rolled over
C5_Witness ==
    /\ Len(submitted) >= 3
    /\ chunk_index >= 1
    /\ HeldFrames >= 1

\* C6: when N >= 1 frames reached the encoder, F = fps * chunk_duration >= 1
\* and nothing failed, the finished run has exactly ceil(N / F) chunks (files
\* and chunk rows); every chunk but the last holds F frames with offsets
\* 0..F-1, the last holds the remainder numbered from 0, and there is no empty
\* trailing chunk.
C6_ChunkCount ==
    (e_pc = "done" /\ db_failures = 0 /\ Len(submitted) >= 1 /\ frames_per_chunk >= 1) =>
        LET n == Len(submitted)
            f == frames_per_chunk
            k == (n + f - 1) \div f   \* ceil(n / f)
        IN  /\ Len(chunk_outputs) = k
            /\ Len(video_chunks) = k
            /\ \A c \in 1..k :
                  LET m == IF c < k THEN f ELSE n - (k - 1) * f
                  IN  /\ m >= 1
                      /\ chunk_outputs[c].packets = m
                      /\ Cardinality(RowsOf(c)) = m
                      /\ OffsetsOf(c) = 0..(m - 1)

\* a finished run of four frames in chunks of two: N is a multiple of F
C6_Witness ==
    /\ e_pc = "done"
    /\ db_failures = 0
    /\ frames_per_chunk = 2
    /\ Len(submitted) = 4
    /\ Len(chunk_outputs) = 2

\* C7: in every chunk the frame row with offset_index 0 is recorded as a
\* keyframe, however many frames the encoder holds back before its first
\* packet (stated here for runs in which no catalog write failed).
C7_FirstRowIsKeyframe ==
    db_failures = 0 =>
        \A j \in 1..Len(frames) : frames[j].offset_index = 0 => frames[j].is_keyframe

\* C8: when a chunk is finalized, the number of frame rows of its chunk row
\* equals the number of packets written to its file, also when a catalog
\* write failed and was logged.
C8_RowsEqualPackets ==
    \A c \in 1..Len(chunk_outputs) :
        Cardinality(chunk_outputs[c].rows) = chunk_outputs[c].packets

\* the checks that passed the interval gate and resolved the cursor to a display
Sightings == SelectSeq(checks, LAMBDA o : o # "unresolved")

\* C9 (as stated): the policy returns a new display d only if the two most
\* recent interval-gated checks both resolved the cursor to d, and d differs
\* from current_display.
C9_SwitchAfterTwoChecks ==
    sw_return.value # "none" =>
        /\ Len(checks) >= 2
        /\ checks[Len(checks)] = sw_return.value
        /\ checks[Len(checks) - 1] = sw_return.value
        /\ sw_return.value # sw_return.from

\* C9 (amended): the policy returns a new display d only if the two most
\* recent interval-gated checks that resolved the cursor to a display both
\* resolved it to d, and d differs from current_display; a check that could
\* not resolve the cursor leaves the pending display and its count untouched.
C9_SwitchAfterTwoSightings ==
    sw_return.value # "none" =>
        /\ Len(Sightings) >= 2
        /\ Sightings[Len(Sightings)] = sw_return.value
        /\ Sightings[Len(Sightings) - 1] = sw_return.value
        /\ sw_return.value # sw_return.from

\* a switch whose two sightings are separated by a check that resolved nothing
C9_Witness ==
    /\ sw_return.value # "none"
    /\ Len(checks) >= 3
    /\ checks[Len(checks) - 1] = "unresolved"

AttemptsOf(name) == SelectSeq(init_log, LAMBDA a : a.encoder = name)

\* position of a backend in available_encoders
IndexOf(name) == CHOOSE i \in 1..Len(available_encoders) : available_encoders[i] = name

\* the selection has moved past the backend
GivenUp(name) == IndexOf(name) < init_idx

\* every attempt on the backend failed with an error worth a retry
KeptFailing(name) ==
    /\ GivenUp(name)
    /\ \A k \in 1..Len(AttemptsOf(name)) : AttemptsOf(name)[k].outcome = "busy"

Delays(attempts) == [k \in 1..Len(attempts) |-> attempts[k].delay]

Names == {available_encoders[i] : i \in 1..Len(available_encoders)}

\* C13 (as stated): a backend whose initialization keeps failing with
\* retryable errors gets exactly 3 attempts, after delays of 100, 300 and
\* 900 ms, before the encoder gives up on it.
C13_ThreeAttempts ==
    \A name \in Names :
        KeptFailing(name) => Delays(AttemptsOf(name)) = <<100, 300, 900>>

\* C13 (amended): such a backend gets one immediate attempt and exactly 3
\* retries, the retries after delays of 100, 300 and 900 ms: 4 attempts.
C13_OneAttemptThreeRetries ==
    \A name \in Names :
        KeptFailing(name) => Delays(AttemptsOf(name)) = <<0, 100, 300, 900>>

\* the first backend kept failing and the second one is being tried
C13_Witness ==
    /\ Len(available_encoders) >= 2
    /\ KeptFailing(available_encoders[1])
    /\ init_idx = 2

\* the backend was tried and every attempt on it failed
TriedAndFailed(name) ==
    /\ AttemptsOf(name) # <<>>
    /\ \A k \in 1..Len(AttemptsOf(name)) : AttemptsOf(name)[k].outcome # "ok"

\* the log runs through the available backends in priority order, and a
\* backend that initialized is the highest-priority one that did
TriedInPriorityOrder ==
    /\ \A i, j \in 1..Len(init_log) :
          i < j => Priority(init_log[i].encoder) <= Priority(init_log[j].encoder)
    /\ \A i \in 1..Len(available_encoders) - 1 :
          Priority(available_encoders[i]) < Priority(available_encoders[i + 1])
    /\ init_result.status = "ok" =>
          /\ init_log[Len(init_log)].outcome = "ok"
          /\ init_log[Len(init_log)].encoder = init_result.selected
          /\ \A name \in Names :
                Priority(name) < Priority(init_result.selected) => TriedAndFailed(name)

\* C14 (as stated): backends are tried strictly in priority order among the
\* available ones; the backend selected is the highest-priority one whose
\* initialization succeeded, and a fatal EncodingError is returned only if
\* every available backend has failed.
C14_PriorityOrder ==
    /\ TriedInPriorityOrder
    /\ init_result.status = "EncodingError" => \A name \in Names : TriedAndFailed(name)

\* C14 (amended): the same order and selection; the selection fails, with the
\* EncodingError "All encoders failed", only if every available backend was
\* tried and failed. Opening the chunk also returns EncodingError when no
\* backend is available, when the output container cannot be created, and,
\* after a backend was selected, when the stream or the header cannot be
\* written.
C14_SelectionOrder ==
    /\ TriedInPriorityOrder
    /\ init_result.status = "EncodingError" =>
          \/ /\ init_result.error = "All encoders failed"
             /\ Names # {}
             /\ \A name \in Names : TriedAndFailed(name)
          \/ /\ init_result.error = "No H.264 encoders available"
             /\ Names = {}
          \/ /\ init_result.error = "Failed to create output context"
             /\ init_log = <<>>
          \/ /\ init_result.error = "Failed to write header"
             /\ init_log[Len(init_log)].outcome = "ok"
             /\ init_log[Len(init_log)].encoder = init_result.selected

\* the last of three available backends was selected after the others failed
C14_Witness ==
    /\ Len(available_encoders) = 3
    /\ init_result.status = "ok"
    /\ init_result.selected = available_encoders[3]

\* C15: whenever send_frame or the packet drain fails while a frame is
\* encoded, the encoder makes one recovery attempt: one call of
\* try_recover_encoder, which initializes once the next available backend of
\* strictly lower priority, swaps it in and re-submits the frame.
C15_OneRecoveryPerFailure ==
    \A k \in 1..Len(recoveries) :
        LET r == recoveries[k]
        IN  /\ r.out.recover_calls = 1
            /\ r.out.fallback # "none" =>
                  /\ Priority(r.out.fallback) > Priority(r.from)
                  /\ r.out.init_calls = 1
                  /\ r.init_ok => (r.out.resends = 1 /\ r.out.info = r.out.fallback)

\* the cases of C16: send_frame failed and the recovery could not help
RecoveryFailed(r) ==
    /\ ~r.send_ok
    /\ \/ r.out.fallback = "none"
       \/ ~r.init_ok
       \/ ~r.resend_ok

InvalidRecordArgs ==
    \/ record_args.fps = 0
    \/ record_args.fps > 60
    \/ record_args.recording_type = "task" /\ record_args.task_id = "none"

\* C17 as stated: the record command rejects fps = 0, fps > 60 and a task
\* recording without task_id with InvalidParameter, before any output
\* directory, catalog file, session row or chunk has been created.
C17_RejectedAsInvalidParameter ==
    InvalidRecordArgs =>
        /\ created = {}
        /\ record_pc \in {"start", "validate", "done"}
        /\ record_pc = "done" => record_result = "InvalidParameter"

\* C17, amended: once the FFmpeg binary has been found and has answered
\* -version, such arguments are rejected with InvalidParameter; when it has
\* not, the command has already failed with ConfigError; either way nothing
\* has been created.
C17_RejectedBeforeCreation ==
    InvalidRecordArgs =>
        /\ created = {}
        /\ record_pc \in {"start", "validate", "done"}
        /\ record_pc = "done" =>
              record_result = IF record_args.ffmpeg = "ok" THEN "InvalidParameter"
                              ELSE "ConfigError"

\* fps = 61 for a well-formed task recording on a machine with FFmpeg: rejected
C17_Witness ==
    /\ record_args = [fps |-> 61, recording_type |-> "task", task_id |-> "t1", ffmpeg |-> "ok"]
    /\ record_pc = "done"
    /\ record_result = "InvalidParameter"

\* the six checks of C18, as the claim lists them
PassesEveryCheck(chunk) ==
    /\ chunk.exists
    /\ chunk.file_size >= 1024
    /\ chunk.has_stream
    /\ chunk.codec_name \in {"h264", "hevc"}
    /\ Len(chunk.duration) = 1
    /\ 0 < chunk.duration[1]
    /\ chunk.duration[1] < 3600
    /\ chunk.readable

\* the file paths of the chunks that pass, in the order of the rows
PathsOfSurvivors ==
    LET survivors == SelectSeq(concat_chunks, PassesEveryCheck)
    IN  [k \in 1..Len(survivors) |-> survivors[k].file_path]

\* C18: the concat list holds exactly the task's chunks that pass every
\* check, in the order of the catalog's rows; every other chunk is counted as
\* missing or invalid, so that listed + missing + invalid = total; when no
\* chunk survives the attempt fails and ffmpeg is not invoked.
C18_ListIsTheSurvivors ==
    \A k \in 1..Len(concat_runs) :
        LET run == concat_runs[k]
        IN  /\ run.validated =>
                  LET checked == run.checked[1]
                  IN  /\ checked.concat_content = PathsOfSurvivors
                      /\ checked.existing_chunks = Len(PathsOfSurvivors)
                      /\ checked.missing_chunks =
                             Cardinality({i \in 1..Len(concat_chunks) : ~concat_chunks[i].exists})
                      /\ checked.existing_chunks + checked.missing_chunks
                             + checked.invalid_chunks = Len(concat_chunks)
            /\ PathsOfSurvivors = <<>> => (~run.invoked /\ run.result # "ok")
            /\ run.invoked => run.validated

\* of two chunks one was skipped as invalid and the other listed and handed
\* to ffmpeg
C18_Witness ==
    /\ concat_runs # <<>>
    /\ concat_runs[1].invoked
    /\ concat_runs[1].checked[1].invalid_chunks = 1
    /\ Len(concat_runs[1].checked[1].concat_content) = 1
    /\ Len(concat_chunks) = 2

\* the distinct (display_width, display_height) pairs the frame rows carry
DistinctPairs ==
    {pair \in (1..2) \X (1..2) :
        \E i \in 1..Len(concat_frames) :
            /\ concat_frames[i].display_width = <<pair[1]>>
            /\ concat_frames[i].display_height = <<pair[2]>>}

\* C19: ffmpeg is asked to stream-copy, with no frame-rate flags, if and only
\* if the frame rows carry at most one distinct pair; otherwise it is asked to
\* re-encode to the element-wise maxima of the pairs at the representative fps.
C19_CopyIffOneResolution ==
    \A k \in 1..Len(concat_runs) :
        concat_runs[k].invoked =>
            LET args == concat_runs[k].ffmpeg_args[1]
                copy == /\ args.codec = "copy"
                        /\ args.r = <<>>
                        /\ args.fps_mode = "none"
                        /\ args.vf = <<>>
            IN  /\ copy <=> Cardinality(DistinctPairs) <= 1
                /\ ~copy =>
                      /\ args.codec = "libx264"
                      /\ Len(args.vf) = 2
                      /\ \A pair \in DistinctPairs : pair[1] <= args.vf[1] /\ pair[2] <= args.vf[2]
                      /\ \E pair \in DistinctPairs : pair[1] = args.vf[1]
                      /\ \E pair \in DistinctPairs : pair[2] = args.vf[2]
                      /\ args.r = <<RepresentativeFps(concat_chunks)>>
                      /\ args.fps_mode = "cfr"

\* frames of 1x2 and of 2x1: a re-encode to 2x2, the size of neither, at the
\* default rate because no chunk row has an fps
C19_Witness ==
    /\ concat_runs # <<>>
    /\ concat_runs[1].invoked
    /\ concat_runs[1].ffmpeg_args[1].vf = <<2, 2>>
    /\ concat_runs[1].ffmpeg_args[1].r = <<30>>
    /\ DistinctPairs = {<<1, 2>>, <<2, 1>>}

\* at most MAX_RETRIES attempts, and none after a success
AttemptsBounded ==
    /\ Len(concat_runs) <= 3
    /\ \A k \in 1..Len(concat_runs) :
          concat_runs[k].result = "ok" =>
              /\ k = Len(concat_runs)
              /\ concat_pc = "done"
              /\ concat_result = "ok"
    /\ concat_pc = "done" =>
          \/ concat_result = "ok"
          \/ Len(concat_runs) = 3 /\ concat_result = concat_runs[3].result

\* every attempt of the command has failed
AllAttemptsFailed == concat_pc = "done" /\ concat_result # "ok"

C21_TerminalEncodingError ==
    AllAttemptsFailed => concat_result = "EncodingError"

\* no output file of an earlier run of the command is left
NothingFromEarlier ==
    /\ \A k \in 1..Len(concat_outputs.final) : concat_outputs.final[k].by # "earlier"
    /\ concat_outputs.metadata # "earlier"
    /\ concat_outputs.frames # "earlier"

\* some attempt of this run got as far as removing the earlier outputs
ReachedCleanup == \E k \in 1..Len(concat_runs) : concat_runs[k].invoked

PositionOf(name) ==
    CHOOSE i \in 1..Len(available_encoders) : available_encoders[i] = name

\* the error's text says the encoder does not exist
SaysNotThere(text) ==
    Contains(text, "not found") \/ Contains(text, "no such") \/ Contains(text, "No such")

\* C28: when an initialization attempt on a backend fails with an error
\* whose text contains "not found" or "no such" (as the system's messages
\* spell it, "No such"), no further attempt is made on that backend and no
\* backoff delay is slept: the next thing tried, at once, is the first
\* attempt on the next backend of the list, and when there is none the
\* selection has ended.
C28_NotFoundEndsRetries ==
    \A i \in 1..Len(init_log) :
        (init_log[i].outcome # "ok" /\ SaysNotThere(init_log[i].text)) =>
            LET at == PositionOf(init_log[i].encoder)
            IN  IF i < Len(init_log)
                THEN /\ at < Len(available_encoders)
                     /\ init_log[i + 1].encoder = available_encoders[at + 1]
                     /\ init_log[i + 1].attempt = 0
                     /\ init_log[i + 1].delay = 0
                ELSE IF at < Len(available_encoders)
                THEN init_pc = "attempt" /\ init_idx = at + 1 /\ init_attempt = 0
                ELSE init_pc = "done" /\ init_result.status = "EncodingError"

C28_Witness ==
    \E i \in 1..(Len(init_log) - 1) :
        /\ Contains(init_log[i].text, "No such")
        /\ init_log[i].attempt > 0
        /\ init_log[i + 1].encoder # init_log[i].encoder

\* C29: a call of insert_frame that fails (an error of the database, or no
\* chunk row for the device) adds no row to the catalog and uses up no
\* offset_index, the encoder is still in its loop after it, and the next
\* frame is the next one encoded and its row is appended as usual: when its
\* own call succeeds, the row goes to the device's latest chunk with the next
\* offset_index of that chunk, the one the failed call would have taken.
C29_FailedAppendIsHarmless ==
    \A i \in 1..Len(append_log) :
        LET a == append_log[i]
        IN  /\ a.failed => (a.appended = <<>> /\ a.pc = "loop")
            /\ (i > 1 /\ append_log[i - 1].failed) =>
                   /\ a.frame = append_log[i - 1].frame + 1
                   /\ ~a.failed =>
                          /\ Len(a.appended) = 1
                          /\ a.appended[1].video_chunk_id = a.chunk
                          /\ a.appended[1].offset_index = a.expect
                          /\ a.chunk = append_log[i - 1].chunk
                                 => a.expect = append_log[i - 1].expect

C29_Witness ==
    /\ Len(append_log) >= 3
    /\ \E i \in 1..(Len(append_log) - 1) :
          /\ append_log[i].failed /\ ~append_log[i].no_chunk
          /\ ~append_log[i + 1].failed
          /\ append_log[i + 1].chunk = append_log[i].chunk

\* the failing call met a device without any chunk row
C29_WitnessNoChunk ==
    \E i \in 1..(Len(append_log) - 1) :
        append_log[i].no_chunk /\ ~append_log[i + 1].failed

C30_WitnessReceiverGone ==
    capture_log.failed_sends = 1 /\ capture_log.result = "Ok"

\* no interrupt and no termination signal has arrived
NoStopRequest ==
    running /\ ~shutdown_sent /\ ctrlc_pc = "idle" /\ sigterm_pc = "wait"

\* C32: while the chunk loop runs, the next frame of the chunk, the k-th with
\* k the number of frames the chunk already holds, is submitted with pts = k,
\* also after a frame was re-submitted to a hot-swapped encoder, and the
\* pts_offset of the encoder in use equals the number of frames encoded in
\* all earlier chunks of the run.
FramesOfEarlierChunks == Len(submitted) - frames_in_current_chunk

C32_PtsCountsWithinChunk ==
    (e_pc = "loop" /\ e_result = "none") =>
        /\ FramePts(current_encoder) = frames_in_current_chunk
        /\ current_encoder.pts_offset = FramesOfEarlierChunks
        /\ chunk_index = 0 => current_encoder.pts_offset = 0

C32_Witness ==
    /\ e_pc = "loop" /\ e_result = "none"
    /\ chunk_index >= 1
    /\ frames_in_current_chunk >= 1
    /\ current_encoder.pts_offset >= 2
    /\ \E i \in 1..Len(recoveries) :
           recoveries[i].out.result = "ok" /\ recoveries[i].out.resends = 1

\* C33: chunks_for_task returns the task's chunks in the order they were
\* recorded and frames_for_task returns the frames chunk by chunk in that
\* order, by offset_index inside a chunk, also for chunks created within one
\* clock second: whatever precedes in recording order precedes in every
\* result of the query.
C33_QueriesInRecordingOrder ==
    \A task \in {TaskOf(r) : r \in Recorders} :
        /\ \A a, b \in TaskChunkIds(task) :
               ChunkRecordedBefore(a, b) => ChunkSortsBefore(a, b)
        /\ \A f, g \in TaskFrameIds(task) :
               FrameRecordedBefore(f, g) => FrameSortsBefore(f, g)

\* no frame of a later chunk is sorted before a frame of an earlier chunk in
\* every result of frames_for_task
FramesNeverSurelyInterleaved ==
    \A task \in {TaskOf(r) : r \in Recorders} :
        \A f, g \in TaskFrameIds(task) :
            ChunkRecordedBefore(frames[f].video_chunk_id, frames[g].video_chunk_id)
                => ~FrameSortsBefore(g, f)

\* C34: every Database::new that returns, on a fresh file, on a file of the
\* current version or on an older file without the display columns, returns
\* Ok and leaves the file with the schema of the current version.
C34_OpenSucceedsAndConverges ==
    \A p \in Openers :
        /\ open_result[p] \in {"none", "killed", "Ok"}
        /\ open_result[p] = "Ok" => db_file = CurrentFile

\* a call of Database::new fails only on a column another process added
\* between this call's PRAGMA and its ALTER
OpenFailsOnlyInRace ==
    \A p \in Openers :
        open_result[p] \notin {"none", "killed", "Ok"} =>
            /\ \E q \in Openers \ {p} : opens[q] > 0
            /\ column_names[p] # Elems(db_file.frames_columns)

\* a step of Database::new only adds tables, indexes and columns at the end
\* of frames, and every stored row keeps the values it had
OpenOnlyAdds ==
    [][/\ db_file.tables \subseteq db_file'.tables
       /\ db_file.indexes \subseteq db_file'.indexes
       /\ Len(db_file.frames_columns) <= Len(db_file'.frames_columns)
       /\ \A i \in 1..Len(db_file.frames_columns) :
              db_file'.frames_columns[i] = db_file.frames_columns[i]
       /\ \A r \in db_rows : \E r2 \in db_rows' : \A c \in DOMAIN r : r2[c] = r[c]
       /\ Cardinality(db_rows') = Cardinality(db_rows)]_vars

\* C35: for every quality 0..255 quality_to_crf returns
\* clamp(42 - 3*quality, 12, 35) on builds other than Windows and
\* clamp(30 - floor(22*quality/10), 8, 28) on Windows builds, the same as with
\* the quality clamped to 1..10 first; the result is within those bounds and a
\* higher quality never gives a higher result.
StatedCrf(os, qual) ==
    IF os = "windows" THEN Clamp(30 - ((22 * qual) \div 10), 8, 28)
    ELSE Clamp(42 - 3 * qual, 12, 35)

C35_CrfAsStated ==
    crf # -1 =>
        /\ crf = StatedCrf(target_os, quality)
        /\ crf = StatedCrf(target_os, Clamp(quality, 1, 10))
        /\ IF target_os = "windows" THEN crf \in 8..28 ELSE crf \in 12..35
        /\ \A higher \in Qualities :
               higher >= quality =>
                   /\ QualityToCrf(target_os, higher) <= crf
                   /\ SubprocessQualityToCrf(higher) <= SubprocessQualityToCrf(quality)

C35_Witness ==
    /\ crf = 8 /\ target_os = "windows" /\ quality = 255

C35_WitnessSubprocess ==
    /\ crf = 35 /\ crf_backend = "subprocess" /\ quality = 0

\* C36: the video.fps written to metadata.json is the representative fps of
\* the task's chunks (the first non-null fps, 30 if there is none), the frame
\* rate the re-encode is asked for.
C36_MetadataFpsIsRepresentative ==
    \A i \in 1..Len(concat_runs) :
        concat_runs[i].metadata # <<>> =>
            concat_runs[i].metadata[1].video_fps = RepresentativeFps(concat_chunks)

\* C37: when the record command of a task recording has returned, on clean
\* completion, after an interrupt, after a capture error or an encoder error,
\* end_session has been called for its session: ended_at is set.
C37_ReturnedMeansEnded ==
    (main_pc = "done" /\ session_id # 0) => session_ended_at # "null"

\* C38: once a session's ended_at has been written it is never changed:
\* end_session is applied at most once per session, and after an interrupt
\* the value the signal handler recorded is the one that remains.
C38_EndedAtWrittenOnce ==
    [][session_ended_at # "null" => session_ended_at' = session_ended_at]_vars

\* C39: however many Ctrl+C and SIGTERM arrive and however their handlers
\* interleave, the send on the encoder's one-shot shutdown channel runs at
\* most once, and the producer's stop flag, once false, stays false.
C39_OneShotAndStopSticks ==
    /\ [](shutdown_sends <= 1)
    /\ [](shutdown_sends = 1 <=> shutdown_sent)
    /\ [][~running => ~running']_vars

C39_Witness ==
    /\ ctrlc_count = MaxCtrlC /\ ctrlc_pc = "done"
    /\ sigterm_pc = "done"
    /\ shutdown_sends = 1
    /\ ~running

\* C40: a recording with duration > 0 that is not interrupted and meets no
\* capture, encoder or catalog error ends, under fair scheduling: the
\* producer, then the bridge, then the chunking encoder; when the encoder has
\* ended, every frame the producer sent has been encoded and has its row in
\* the catalog, and the last chunk has been finalized.
PacketsWritten ==
    LET RECURSIVE Sum(_)
        Sum(n) == IF n = 0 THEN 0 ELSE Sum(n - 1) + chunk_outputs[n].packets
    IN  Sum(Len(chunk_outputs))

AllEnded == p_pc = "done" /\ b_pc = "done" /\ e_pc = "done"

C25_ChunkPathsDistinct ==
    \A i, j \in 1..Len(opened_files) :
        i # j => opened_files[i].path # opened_files[j].path

\* C26: the chunk_index values of a task's chunk rows are 0, 1, 2, ... in
\* creation order with no value repeated, also over several runs with the
\* same task id.
C26_ChunkIndexCountsUp ==
    \A i \in 1..Len(video_chunks) :
        video_chunks[i].chunk_index
            = Cardinality({j \in 1..(i - 1) :
                              video_chunks[j].task_id = video_chunks[i].task_id})

\* every chunk but the newest has its trailer, and what a finished chunk holds
\* is what was submitted to it
ChunksInOrder ==
    /\ \A k \in 1..(Len(chunk_log) - 1) : chunk_log[k].state = "closed"
    /\ \A k \in 1..Len(chunk_log) :
          /\ chunk_log[k].late = 0
          /\ chunk_log[k].state = "closed" =>
                 /\ k <= Len(chunk_outputs)
                 /\ chunk_outputs[k].packets = chunk_log[k].written
    /\ Len(chunk_outputs) = Cardinality({k \in 1..Len(chunk_log) :
                                            chunk_log[k].state = "closed"})

\* C27 as stated: at most one chunk is open at any time, the previous chunk's
\* trailer is written before the next chunk is opened, no frame is written to
\* a chunk once its finalize has started, and rollover, shutdown and input
\* close are the only ways a chunk leaves the running state.
C27_OnlyRolloverOrShutdown ==
    /\ ChunksInOrder
    /\ \A k \in 1..Len(chunk_log) :
          chunk_log[k].state \notin {"opening", "running"}
              => chunk_log[k].left_by \in {"rollover", "shutdown", "input_close"}

\* C27, amended: at most one chunk is open at any time, the previous chunk's
\* trailer is written before the next chunk is opened, no frame is written to
\* a chunk once its finalize has started, and a chunk is finished only by a
\* rollover, the shutdown or the close of the input; an error returned by
\* finish, by the opening of the next chunk or by encode_frame ends the task
\* and drops the newest chunk without a trailer.
C27_OneChunkOpen ==
    /\ ChunksInOrder
    /\ \A k \in 1..Len(chunk_log) :
          /\ chunk_log[k].state = "closed"
                 => chunk_log[k].left_by \in {"rollover", "shutdown", "input_close"}
          /\ chunk_log[k].state = "dropped"
                 => k = Len(chunk_log) /\ e_pc = "done" /\ e_result = "EncodingError"

C27_Witness ==
    /\ Len(chunk_log) >= 2
    /\ chunk_log[1].left_by = "rollover"
    /\ chunk_log[1].written > 0
    /\ chunk_log[Len(chunk_log)].state = "dropped"

\* C10: on both shutdown paths the session's ended_at is written before the
\* encoder's shutdown signal is sent, and the stop flag is flipped only after
\* the signal was sent.
C10_EndedBeforeSignal ==
    /\ shutdown_sent => (session_id = 0 \/ session_ended_at # "null")
    /\ ~running => shutdown_sent

=============================================================================
